---- MODULE Spec2Model ----
(***************************************************************************)
(* Kinematics and workspace sampling of the planar arms of                 *)
(* assignment1/partb/robot_arm.py (class RoboticArm) and                   *)
(* assignment1/partc/robotic_arm_4dof.py (classes Joint, RoboticArm4DOF).  *)
(*                                                                         *)
(* Numbers.  Lengths are integers in units of 1/300 of a length unit       *)
(* (3.0 is 900, 0.01 is 3).  Angles are integers in quarter turns          *)
(* (pi/2 is 1, pi is 2), for which cos and sin are exactly -1, 0 or 1, so  *)
(* every position the model computes is the exact real value; the          *)
(* floating-point rounding of numpy is not modelled.  A distance is        *)
(* compared through its square.                                            *)
(*                                                                         *)
(* scipy.optimize.minimize is library code: its result is a                *)
(* nondeterministic choice of a convergence flag and a final vector, with  *)
(* fun the objective at that vector.                                       *)
(***************************************************************************)
EXTENDS Integers, Sequences, FiniteSets, TLC

VARIABLES
    cls,       \* the class of the arm the scenario constructed
    arm,       \* the RoboticArm object
    arm4,      \* the RoboticArm4DOF object (its Joint objects in arm4.joints)
    last,      \* the last completed public call: its name, arguments, result
    pc,        \* position of the caller: "idle", inside a sampler, "raised"
    ws,        \* locals of the running workspace sampler or planner
    ik_calls,  \* targets inverse_kinematics was invoked on by the running call
    sim,       \* the PickAndPlaceSimulation object (its robot is arm)
    system     \* the SortingSystem object (its arm is arm4)

vars == <<cls, arm, arm4, last, pc, ws, ik_calls, sim, system>>

----------------------------------------------------------------------------
(* Bounds of the model *)

\* largest grid resolution passed to the samplers
MaxResolution == 4
\* most objective evaluations one minimize call makes
MaxEvals == 1
\* most entries of calculation_times reached by top-level calls
MaxTimes == 3

----------------------------------------------------------------------------
(* Numbers of the program *)

\* np.pi, in quarter turns
Pi == 2
\* the residual cap 0.01 of RoboticArm4DOF.inverse_kinematics
Tol == 3
\* the link length 1.0 used for a revolute joint beyond base_links
DefaultLink == 300
\* RoboticArm4DOF.num_joints
NumJoints4 == 4
\* an entry of calculation_times: the elapsed wall-clock time is not modelled
Elapsed == 0

\* Python's None, for an optional vector
None == << >>

Zeros(n) == [i \in 1..n |-> 0]

Abs(x) == IF x < 0 THEN -x ELSE x

Sq(x) == x * x

RECURSIVE Sum(_)
Sum(s) == IF s = << >> THEN 0 ELSE s[1] + Sum(Tail(s))

\* np.cos and np.sin of an angle given in quarter turns
Cos(a) == LET r == a % 4 IN IF r = 0 THEN 1 ELSE IF r = 2 THEN -1 ELSE 0

Sin(a) == LET r == a % 4 IN IF r = 1 THEN 1 ELSE IF r = 3 THEN -1 ELSE 0

\* squared Euclidean distance of two points
DistSq(p, q) == Sq(p[1] - q[1]) + Sq(p[2] - q[2])

----------------------------------------------------------------------------
(* class RoboticArm (partb/robot_arm.py) *)

\* RoboticArm.__init__: joint_limits None gives (-pi, pi) for every joint
RoboticArm_init(link_lengths, joint_limits) ==
    [ link_lengths |-> link_lengths,
      num_joints   |-> Len(link_lengths),
      joint_angles |-> Zeros(Len(link_lengths)),
      joint_limits |-> IF joint_limits = None
                       THEN [i \in 1..Len(link_lengths) |-> <<-Pi, Pi>>]
                       ELSE joint_limits ]

\* np.cumsum(joint_angles)[i-1]
RECURSIVE cumulative_angles(_, _)
cumulative_angles(joint_angles, i) ==
    IF i = 0 THEN 0 ELSE cumulative_angles(joint_angles, i - 1) + joint_angles[i]

\* joint_positions[i] of RoboticArm.forward_kinematics (row 0 is the base)
RECURSIVE RoboticArm_joint_position(_, _, _)
RoboticArm_joint_position(self, joint_angles, i) ==
    IF i = 0 THEN <<0, 0>>
    ELSE LET p == RoboticArm_joint_position(self, joint_angles, i - 1)
             c == cumulative_angles(joint_angles, i)
         IN  << p[1] + self.link_lengths[i] * Cos(c),
                p[2] + self.link_lengths[i] * Sin(c) >>

\* RoboticArm.forward_kinematics: (end_effector_pos, joint_positions)
RoboticArm_forward_kinematics(self, joint_angles) ==
    LET ja == IF joint_angles = None THEN self.joint_angles ELSE joint_angles
        jp == [i \in 1..(self.num_joints + 1) |->
                  RoboticArm_joint_position(self, ja, i - 1)]
    IN  [ end_effector_pos |-> jp[self.num_joints + 1], joint_positions |-> jp ]

\* objective of RoboticArm.inverse_kinematics: the squared distance
RoboticArm_objective(self, angles, target) ==
    DistSq(RoboticArm_forward_kinematics(self, angles).end_effector_pos, target)

\* constraint of RoboticArm.inverse_kinematics: every entry is >= 0
RoboticArm_constraint(self, angles) ==
    \A i \in 1..Len(self.joint_limits) :
        /\ angles[i] - self.joint_limits[i][1] >= 0
        /\ self.joint_limits[i][2] - angles[i] >= 0

\* min_reach of RoboticArm.is_reachable:
\* abs(np.sum(link_lengths[:-1]) - link_lengths[-1])
RoboticArm_min_reach(self) ==
    LET n == Len(self.link_lengths)
    IN  Abs(Sum(SubSeq(self.link_lengths, 1, n - 1)) - self.link_lengths[n])

\* mutant: a point at distance min_reach exactly is rejected
RoboticArm_is_reachable_exclusive(self, x, y) ==
    LET distance2 == Sq(x) + Sq(y)
        max_reach == Sum(self.link_lengths)
        min_reach == RoboticArm_min_reach(self)
    IN  Sq(min_reach) < distance2 /\ distance2 <= Sq(max_reach)

\* RoboticArm.is_reachable
RoboticArm_is_reachable(self, x, y) ==
    LET distance2 == Sq(x) + Sq(y)
        max_reach == Sum(self.link_lengths)
        min_reach == RoboticArm_min_reach(self)
    IN  Sq(min_reach) <= distance2 /\ distance2 <= Sq(max_reach)

----------------------------------------------------------------------------
(* Inputs the model draws from *)

\* joint-angle vectors of length 3; RoboticArm uses the first num_joints
\* entries.  <<0, 2, 0>> folds the second link back; <<3, 0, 0>> is outside
\* the default limits
AngleVectors ==
    { <<0, 0, 0>>, <<1, 0, 0>>, <<0, 2, 0>>, <<0, 2, 2>>, <<1, -1, 1>>, <<3, 0, 0>> }

\* final vectors scipy's minimize may stop at
CandidateAngles == { <<0, 0, 0>>, <<1, 0, 0>>, <<0, 2, 0>>, <<3, 0, 0>> }

\* targets: (4.0, 2.0), (7.0, 0), (-1.0, 0), (0, 10.0)
Targets == { <<1200, 600>>, <<2100, 0>>, <<-300, 0>>, <<0, 3000>> }

Prefix(v, n) == SubSeq(v, 1, n)

\* scipy.optimize.minimize(objective, x0, method='SLSQP', constraints) as
\* RoboticArm.inverse_kinematics calls it: any final vector, converged or
\* not; a converged one satisfies the inequality constraints
RoboticArm_minimize(self, target, x0) ==
    { [ success |-> s, x |-> x, fun |-> RoboticArm_objective(self, x, target) ] :
        <<s, x>> \in { sx \in BOOLEAN \X ({ Prefix(c, self.num_joints) :
                                             c \in CandidateAngles } \cup {x0}) :
                        sx[1] => RoboticArm_constraint(self, sx[2]) } }

\* the value RoboticArm.inverse_kinematics returns: result.x on convergence,
\* else None
RoboticArm_ik_return(result) ==
    IF result.success THEN result.x ELSE None

\* RoboticArm.inverse_kinematics: the possible outcomes, each the optimizer's
\* result and the value returned
RoboticArm_inverse_kinematics(self, target_x, target_y, initial_guess) ==
    LET guess == IF initial_guess = None THEN self.joint_angles ELSE initial_guess
    IN  { [ guess |-> guess, result |-> r, ret |-> RoboticArm_ik_return(r) ] :
            r \in RoboticArm_minimize(self, <<target_x, target_y>>, guess) }

\* RoboticArm.set_joint_angles
RoboticArm_set_joint_angles(self, angles) ==
    [self EXCEPT !.joint_angles = angles]

----------------------------------------------------------------------------
(* classes Joint and RoboticArm4DOF (partc/robotic_arm_4dof.py) *)

\* Joint.__init__ with the default initial_value 0.0
Joint_init(joint_type, limits) ==
    [ joint_type |-> joint_type, limits |-> limits, value |-> 0,
      min_limit |-> limits[1], max_limit |-> limits[2] ]

\* Joint.set_value: the value returned and the joint afterwards
Joint_set_value(self, value) ==
    IF self.min_limit <= value /\ value <= self.max_limit
    THEN [ ret |-> TRUE,  self |-> [self EXCEPT !.value = value] ]
    ELSE [ ret |-> FALSE, self |-> self ]

\* RoboticArm4DOF.__init__
RoboticArm4DOF_init(base_links, joint_types, joint_limits) ==
    LET joints == [i \in 1..NumJoints4 |-> Joint_init(joint_types[i], joint_limits[i])]
    IN  [ base_links        |-> base_links,
          num_joints        |-> NumJoints4,
          joints            |-> joints,
          joint_values      |-> [i \in 1..NumJoints4 |-> joints[i].value],
          base_position     |-> <<0, 0>>,
          fk_calculations   |-> 0,
          ik_calculations   |-> 0,
          calculation_times |-> << >> ]

\* mutant: a revolute joint advances along the old orientation and rotates
\* afterwards
RoboticArm4DOF_fk_joint_rotates_late(self, s, i, value) ==
    LET joint == self.joints[i]
    IN  IF joint.joint_type = "revolute"
        THEN LET link_length == IF i <= Len(self.base_links)
                                THEN self.base_links[i] ELSE DefaultLink
             IN  [ current_pos   |-> << s.current_pos[1] + link_length * Cos(s.current_angle),
                                        s.current_pos[2] + link_length * Sin(s.current_angle) >>,
                   current_angle |-> s.current_angle + value ]
        ELSE IF joint.joint_type = "prismatic"
        THEN [ current_pos   |-> << s.current_pos[1] + value * Cos(s.current_angle),
                                    s.current_pos[2] + value * Sin(s.current_angle) >>,
               current_angle |-> s.current_angle ]
        ELSE s

\* one iteration of the loop of RoboticArm4DOF.forward_kinematics, for the
\* i-th joint (counted from 1) and its value: current_pos and current_angle
\* afterwards, from their values s before
RoboticArm4DOF_fk_joint(self, s, i, value) ==
    LET joint == self.joints[i]
    IN  IF joint.joint_type = "revolute"
        THEN LET angle       == s.current_angle + value
                 link_length == IF i <= Len(self.base_links)
                                THEN self.base_links[i] ELSE DefaultLink
             IN  [ current_pos   |-> << s.current_pos[1] + link_length * Cos(angle),
                                        s.current_pos[2] + link_length * Sin(angle) >>,
                   current_angle |-> angle ]
        ELSE IF joint.joint_type = "prismatic"
        THEN [ current_pos   |-> << s.current_pos[1] + value * Cos(s.current_angle),
                                    s.current_pos[2] + value * Sin(s.current_angle) >>,
               current_angle |-> s.current_angle ]
        ELSE s

\* the loop of RoboticArm4DOF.forward_kinematics after its first i
\* iterations
RECURSIVE RoboticArm4DOF_fk_loop(_, _, _)
RoboticArm4DOF_fk_loop(self, joint_values, i) ==
    IF i = 0 THEN [ current_pos |-> self.base_position, current_angle |-> 0 ]
    ELSE RoboticArm4DOF_fk_joint(self, RoboticArm4DOF_fk_loop(self, joint_values, i - 1),
                                 i, joint_values[i])

Min(a, b) == IF a <= b THEN a ELSE b

\* the positions RoboticArm4DOF.forward_kinematics returns
RoboticArm4DOF_fk_ret(self, joint_values) ==
    LET jv == IF joint_values = None THEN self.joint_values ELSE joint_values
        k  == Min(Len(self.joints), Len(jv))
        jp == [i \in 1..(k + 1) |-> RoboticArm4DOF_fk_loop(self, jv, i - 1).current_pos]
    IN  [ end_effector_pos |-> jp[k + 1], joint_positions |-> jp ]

\* mutant: forward_kinematics also stores the vector it was given
RoboticArm4DOF_forward_kinematics_stores(self, joint_values) ==
    [ ret  |-> RoboticArm4DOF_fk_ret(self, joint_values),
      self |-> [self EXCEPT !.fk_calculations = @ + 1,
                            !.calculation_times = Append(@, Elapsed),
                            !.joint_values = IF joint_values = None
                                             THEN @ ELSE joint_values] ]

\* RoboticArm4DOF.forward_kinematics: the value returned and the arm
\* afterwards (the performance metrics are updated on every call)
RoboticArm4DOF_forward_kinematics(self, joint_values) ==
    [ ret  |-> RoboticArm4DOF_fk_ret(self, joint_values),
      self |-> [self EXCEPT !.fk_calculations = @ + 1,
                            !.calculation_times = Append(@, Elapsed)] ]

\* objective_function of RoboticArm4DOF.inverse_kinematics: the distance of
\* the end effector to the target, here squared
RoboticArm4DOF_objective_function(self, joint_vals, target_pos) ==
    DistSq(RoboticArm4DOF_fk_ret(self, joint_vals).end_effector_pos, target_pos)

\* constraint_function of RoboticArm4DOF.inverse_kinematics: every entry >= 0
RoboticArm4DOF_constraint_function(self, joint_vals) ==
    \A i \in 1..Min(Len(self.joints), Len(joint_vals)) :
        /\ joint_vals[i] - self.joints[i].min_limit >= 0
        /\ self.joints[i].max_limit - joint_vals[i] >= 0

\* joint-value vectors [theta1, theta2, d3, theta4] the model passes in:
\* <<1, 0, 900, -1>> breaks the limit of the third joint of the sample arm
JointVectors == { <<0, 0, 0, 0>>, <<1, 0, 300, 0>>, <<1, 0, 900, -1>> }

\* (joint index, value) pairs passed to Joint.set_value
SetValueInputs == { <<1, 1>>, <<3, 600>>, <<3, 900>> }

\* final vectors scipy's minimize may stop at
CandidateValues ==
    { <<0, 0, 0, 0>>, <<0, 0, 600, 0>>, <<0, 1, 0, -1>>, <<0, 0, 900, 0>> }

\* targets: (4.5, 0), (6.5, 0), the points 2/300 and 0.01 beyond (6.5, 0),
\* (0, 10.0) and (-4.5, 0)
Targets4 ==
    { <<1350, 0>>, <<1950, 0>>, <<1952, 0>>, <<1953, 0>>, <<0, 3000>>, <<-1350, 0>> }

\* vectors that reach a pick position over the belt ((-1.0, -2.5),
\* (0, -2.5), (1.0, -2.5)) or the sorting zone (3.5, 1.0) of the sorting
\* system exactly
ReachingValues ==
    { <<-2, 1, 330, 1>>, <<-1, 0, 30, 2>>, <<0, -1, 330, -1>>, <<0, 0, 0, 1>> }

\* scipy.optimize.minimize(objective_function, initial_guess, method='SLSQP',
\* constraints, options) as RoboticArm4DOF.inverse_kinematics calls it: any
\* final vector, converged or not, after nfev >= 1 evaluations of the
\* objective; a converged one satisfies the inequality constraints.  The
\* final vectors are the candidates, the initial guess, and the vectors of
\* ReachingValues that reach the target
RoboticArm4DOF_minimize(self, target_pos, x0) ==
    LET reaching == { v \in ReachingValues :
                        RoboticArm4DOF_fk_ret(self, v).end_effector_pos = target_pos }
    IN  { [ success |-> sxn[1], x |-> sxn[2], nfev |-> sxn[3],
            fun_sq |-> RoboticArm4DOF_objective_function(self, sxn[2], target_pos) ] :
            sxn \in { t \in BOOLEAN \X (CandidateValues \cup {x0} \cup reaching)
                                      \X (1..MaxEvals) :
                        t[1] => RoboticArm4DOF_constraint_function(self, t[2]) } }

\* the arm after n calls of forward_kinematics
RECURSIVE AfterEvaluations(_, _)
AfterEvaluations(self, n) ==
    IF n = 0 THEN self
    ELSE AfterEvaluations(RoboticArm4DOF_forward_kinematics(self, self.joint_values).self,
                          n - 1)

\* mutant: a residual of exactly 0.01 is accepted
RoboticArm4DOF_ik_success_inclusive(result) ==
    result.success /\ result.fun_sq <= Tol * Tol

\* success of RoboticArm4DOF.inverse_kinematics:
\* result.success and result.fun < 0.01
RoboticArm4DOF_ik_success(result) ==
    result.success /\ result.fun_sq < Tol * Tol

\* mutant: the optimizer's vector is returned on failure too
RoboticArm4DOF_ik_return_rejected(result, initial_guess) ==
    [ success        |-> RoboticArm4DOF_ik_success(result),
      joint_solution |-> result.x ]

\* the pair RoboticArm4DOF.inverse_kinematics returns:
\* success, result.x if success else initial_guess
RoboticArm4DOF_ik_return(result, initial_guess) ==
    [ success        |-> RoboticArm4DOF_ik_success(result),
      joint_solution |-> IF RoboticArm4DOF_ik_success(result)
                         THEN result.x ELSE initial_guess ]

\* RoboticArm4DOF.inverse_kinematics: the possible outcomes, each the
\* optimizer's result, the pair returned and the arm afterwards
RoboticArm4DOF_inverse_kinematics(self, target_pos, initial_guess) ==
    LET guess == IF initial_guess = None THEN self.joint_values ELSE initial_guess
    IN  { [ guess  |-> guess,
            result |-> r,
            ret    |-> RoboticArm4DOF_ik_return(r, guess),
            self   |-> [ AfterEvaluations(self, r.nfev) EXCEPT
                           !.ik_calculations = @ + 1,
                           !.calculation_times = Append(@, Elapsed) ] ] :
            r \in RoboticArm4DOF_minimize(self, target_pos, guess) }

\* RoboticArm4DOF.set_joint_configuration: the value returned and the arm
\* afterwards; Joint.set_value runs on every joint before valid is tested
RoboticArm4DOF_set_joint_configuration(self, joint_values) ==
    LET k      == Min(Len(self.joints), Len(joint_values))
        set(i) == Joint_set_value(self.joints[i], joint_values[i])
        valid  == \A i \in 1..k : set(i).ret
        joints == [i \in 1..Len(self.joints) |->
                      IF i <= k THEN set(i).self ELSE self.joints[i]]
    IN  [ ret  |-> valid,
          self |-> [self EXCEPT !.joints = joints,
                                !.joint_values = IF valid THEN joint_values ELSE @] ]

\* the max limits of the prismatic joints
PrismaticMaxLimits(self) ==
    { self.joints[i].max_limit :
        i \in { j \in 1..Len(self.joints) : self.joints[j].joint_type = "prismatic" } }

SetMax(S) == CHOOSE m \in S : \A e \in S : e <= m

\* max_reach of RoboticArm4DOF.get_workspace_analysis (max() of an empty
\* list raises: see the sampler)
RoboticArm4DOF_max_reach(self) ==
    Sum(self.base_links) + SetMax(PrismaticMaxLimits(self))

----------------------------------------------------------------------------
(* class PickAndPlaceSimulation (partb/pick_and_place.py) *)

\* steps of interpolate_path
Steps == 50
\* frames appended for the pause after a pick and after a place
PauseFrames == 10

\* PickAndPlaceSimulation.__init__
PickAndPlaceSimulation_init ==
    [ objects |-> << >>, target_locations |-> << >>, animation_data |-> << >> ]

\* PickAndPlaceSimulation.add_object
PickAndPlaceSimulation_add_object(self, x, y) ==
    [self EXCEPT !.objects = Append(@, <<x, y>>)]

\* PickAndPlaceSimulation.add_target
PickAndPlaceSimulation_add_target(self, x, y) ==
    [self EXCEPT !.target_locations = Append(@, <<x, y>>)]

\* a frame of a path: joint angles in units of 1/(steps - 1) of a quarter
\* turn, the unit in which t = i / (steps - 1) keeps the frames exact
AsFrame(angles, steps) == [j \in DOMAIN angles |-> (steps - 1) * angles[j]]

\* mutant: the path stops one frame short of end_angles
interpolate_path_without_end(start_angles, end_angles, steps) ==
    [ k \in 1..(steps - 1) |->
        [ j \in DOMAIN start_angles |->
            (steps - 1) * start_angles[j]
              + (k - 1) * (end_angles[j] - start_angles[j]) ] ]

\* PickAndPlaceSimulation.interpolate_path: frame i (k = i + 1) is
\* start_angles + i / (steps - 1) * (end_angles - start_angles)
interpolate_path(start_angles, end_angles, steps) ==
    [ k \in 1..steps |->
        [ j \in DOMAIN start_angles |->
            (steps - 1) * start_angles[j]
              + (k - 1) * (end_angles[j] - start_angles[j]) ] ]

\* the pause: the current angles appended PauseFrames times
pause(current_angles) ==
    [ k \in 1..PauseFrames |-> AsFrame(current_angles, Steps) ]

\* an inverse_kinematics call made by plan_pick_and_place, as kept in
\* ik_calls
PlanCall(role, point, ret) ==
    [ role |-> role, target |-> point, success |-> ret # None, ret |-> ret ]

\* plan_pick_and_place up to its loop: the locals after the path home
PickAndPlaceSimulation_plan_start(self, robot) ==
    LET current_angles == robot.joint_angles
        home_angles    == Zeros(robot.num_joints)
    IN  [ sequence       |-> interpolate_path(current_angles, home_angles, Steps),
          current_angles |-> home_angles,
          home_angles    |-> home_angles,
          i              |-> 0 ]

\* mutant: the object is moved to its target as soon as its pick solve
\* succeeded
PickAndPlaceSimulation_plan_object_moves_early(self, robot, w) ==
    LET obj == self.objects[w.i + 1]
        nxt == [w EXCEPT !.i = @ + 1]
    IN  IF ~(w.i < Len(self.target_locations))
        THEN { [ self |-> self, w |-> nxt, calls |-> << >> ] }
        ELSE LET target == self.target_locations[w.i + 1]
                 picks  == RoboticArm_inverse_kinematics(robot, obj[1], obj[2], None)
                 places == RoboticArm_inverse_kinematics(robot, target[1], target[2], None)
                 picked(p) ==
                     [nxt EXCEPT !.sequence = @ \o interpolate_path(w.current_angles, p, Steps)
                                                \o pause(p),
                                 !.current_angles = p]
                 placed(p, q) ==
                     [picked(p) EXCEPT !.sequence = @ \o interpolate_path(p, q, Steps)
                                                      \o pause(q),
                                       !.current_angles = q]
             IN  { IF p.ret = None
                   THEN [ self |-> self, w |-> nxt,
                          calls |-> << PlanCall("pick", obj, p.ret) >> ]
                   ELSE IF q.ret = None
                   THEN [ self |-> [self EXCEPT !.objects[w.i + 1] = target],
                          w |-> picked(p.ret),
                          calls |-> << PlanCall("pick", obj, p.ret),
                                       PlanCall("place", target, q.ret) >> ]
                   ELSE [ self |-> [self EXCEPT !.objects[w.i + 1] = target],
                          w |-> placed(p.ret, q.ret),
                          calls |-> << PlanCall("pick", obj, p.ret),
                                       PlanCall("place", target, q.ret) >> ] :
                   p \in picks, q \in places }

\* one iteration of the loop of plan_pick_and_place, on object i: the
\* possible outcomes, each the simulation and the locals afterwards and the
\* inverse_kinematics calls made
PickAndPlaceSimulation_plan_object(self, robot, w) ==
    LET obj == self.objects[w.i + 1]
        nxt == [w EXCEPT !.i = @ + 1]
    IN  IF ~(w.i < Len(self.target_locations))
        THEN { [ self |-> self, w |-> nxt, calls |-> << >> ] }
        ELSE LET target == self.target_locations[w.i + 1]
                 picks  == RoboticArm_inverse_kinematics(robot, obj[1], obj[2], None)
                 places == RoboticArm_inverse_kinematics(robot, target[1], target[2], None)
                 picked(p) ==
                     [nxt EXCEPT !.sequence = @ \o interpolate_path(w.current_angles, p, Steps)
                                                \o pause(p),
                                 !.current_angles = p]
                 placed(p, q) ==
                     [picked(p) EXCEPT !.sequence = @ \o interpolate_path(p, q, Steps)
                                                      \o pause(q),
                                       !.current_angles = q]
             IN  { IF p.ret = None
                   THEN [ self |-> self, w |-> nxt,
                          calls |-> << PlanCall("pick", obj, p.ret) >> ]
                   ELSE IF q.ret = None
                   THEN [ self |-> self, w |-> picked(p.ret),
                          calls |-> << PlanCall("pick", obj, p.ret),
                                       PlanCall("place", target, q.ret) >> ]
                   ELSE [ self |-> [self EXCEPT !.objects[w.i + 1] = target],
                          w |-> placed(p.ret, q.ret),
                          calls |-> << PlanCall("pick", obj, p.ret),
                                       PlanCall("place", target, q.ret) >> ] :
                   p \in picks, q \in places }

\* the value plan_pick_and_place returns: the sequence with the path home
PickAndPlaceSimulation_plan_return(w) ==
    w.sequence \o interpolate_path(w.current_angles, w.home_angles, Steps)

----------------------------------------------------------------------------
(* classes ConveyorObject, ConveyorBelt, ObjectDetector and SortingSystem
   (partc/conveyor_sorting_system.py).  Times are in units of 1/300 s.  A
   ConveyorObject is known by its identity, its position in heap, the
   sequence of the objects ever created; conveyor.objects and picking_object
   hold identities, and picking_object = 0 stands for None. *)

\* "close enough to target": 0.1
Close == 30
\* the square of a quarter turn, (pi/2)^2, in units of 1/300^2, rounded
QuarterTurnSq == 222066

Sizes == { "small", "medium", "large" }

Colors == { "red", "green", "blue" }

\* a ConveyorObject as its constructor leaves it
ConveyorObject(x, y, size, color, width, height, speed) ==
    [ x |-> x, y |-> y, size |-> size, color |-> color, width |-> width,
      height |-> height, speed |-> speed, picked |-> FALSE, sorted |-> FALSE ]

\* ConveyorBelt.size_definitions
size_definitions(size) ==
    CASE size = "small"  -> <<60, 60>>
      [] size = "medium" -> <<120, 120>>
      [] size = "large"  -> <<180, 180>>

\* 1.0 / object_spawn_rate, the wall-clock time between two spawns: 0.5 s
SpawnGap == 150

\* ConveyorBelt.__init__; speed is a quotient <<numerator, denominator>>, and
\* last_spawn_time, a wall-clock time, is kept as the wall-clock time since
\* the last spawn of the timer, up to the first value past SpawnGap, and as
\* -1 for the initial 0.0
ConveyorBelt_init(length, width, speed) ==
    [ length |-> length, width |-> width, speed |-> speed, objects |-> << >>,
      belt_x |-> 0, belt_y |-> -900, object_spawn_rate |-> 2,
      last_spawn_time |-> -1 ]

\* ConveyorBelt.spawn_object, with the random size and color and the random
\* offset of y given: the belt and the heap afterwards
ConveyorBelt_spawn_object(self, heap, size, color, offset) ==
    LET wh  == size_definitions(size)
        x   == self.belt_x - self.length \div 2 - 150
        y   == self.belt_y + offset
        obj == ConveyorObject(x, y, size, color, wh[1], wh[2], self.speed)
    IN  [ self |-> [self EXCEPT !.objects = Append(@, Len(heap) + 1)],
          heap |-> Append(heap, obj) ]

\* ConveyorBelt.update: wall is the wall-clock time since the last update,
\* spawn the random size, color and offset of the object the timer spawns
\* when it is due (None: no further object is followed); then every object
\* of the belt that is not picked moves by speed * dt and is removed when
\* past the end of the belt
ConveyorBelt_update(self, heap, dt, wall, spawn) ==
    LET due == \/ self.last_spawn_time = -1
               \/ self.last_spawn_time + wall > SpawnGap
        s0  == IF due /\ spawn # None
               THEN LET o == ConveyorBelt_spawn_object(self, heap,
                                                       spawn[1], spawn[2], spawn[3])
                    IN  [ self |-> [o.self EXCEPT !.last_spawn_time = 0],
                          heap |-> o.heap ]
               ELSE [ self |-> [self EXCEPT !.last_spawn_time =
                                    IF due THEN @ ELSE @ + wall],
                      heap |-> heap ]
        on_belt(id) == \E k \in DOMAIN s0.self.objects : s0.self.objects[k] = id
        moved == [ id \in DOMAIN s0.heap |->
                     IF on_belt(id) /\ ~s0.heap[id].picked
                     THEN [s0.heap[id] EXCEPT
                             !.x = @ + (self.speed[1] * dt) \div self.speed[2]]
                     ELSE s0.heap[id] ]
        kept(id) == ~( /\ ~s0.heap[id].picked
                       /\ moved[id].x > self.belt_x + self.length \div 2 + 300 )
    IN  [ self |-> [s0.self EXCEPT !.objects = SelectSeq(@, kept)],
          heap |-> moved ]

\* ObjectDetector.classify_size: areas 0.1 and 0.25
ObjectDetector_classify_size(width, height) ==
    LET area == width * height
    IN  IF area <= 9000 THEN "small"
        ELSE IF area <= 22500 THEN "medium"
        ELSE "large"

\* ObjectDetector.classify_color: the actual color, or (random) another one
ObjectDetector_classify_color(actual_color) ==
    { actual_color } \cup (Colors \ { actual_color })

\* confidences random.uniform(0.8, 0.98) may return, in hundredths
ConfidenceValues == { 80, 98 }

\* the objects ObjectDetector.detect_objects reports, in belt order
ObjectDetector_in_zone(conveyor_objects, heap, detection_zone) ==
    LET center_x == detection_zone[1]
        width    == detection_zone[2]
        y_pos    == detection_zone[3]
        seen(id) == /\ ~heap[id].picked /\ ~heap[id].sorted
                    /\ center_x - width \div 2 <= heap[id].x
                    /\ heap[id].x <= center_x + width \div 2
                    /\ Abs(heap[id].y - y_pos) <= 300
    IN  SelectSeq(conveyor_objects, seen)

\* ObjectDetector.detect_objects: the possible lists of detection_info, one
\* for every outcome of the random color classification and confidence
ObjectDetector_detect_objects(conveyor_objects, heap, detection_zone) ==
    LET ids == ObjectDetector_in_zone(conveyor_objects, heap, detection_zone)
    IN  { [ k \in 1..Len(ids) |->
              [ object       |-> ids[k],
                position     |-> << heap[ids[k]].x, heap[ids[k]].y >>,
                size         |-> ObjectDetector_classify_size(heap[ids[k]].width,
                                                              heap[ids[k]].height),
                color        |-> noise[k][1],
                confidence   |-> noise[k][2],
                actual_size  |-> heap[ids[k]].size,
                actual_color |-> heap[ids[k]].color ] ] :
            noise \in { n \in [1..Len(ids) -> Colors \X ConfidenceValues] :
                          \A k \in 1..Len(ids) :
                              n[k][1] \in ObjectDetector_classify_color(
                                              heap[ids[k]].color) } }

\* max(detected_objects, key=confidence): the first of the most confident
BestDetection(detected_objects) ==
    LET best(k) == /\ \A m \in DOMAIN detected_objects :
                         detected_objects[m].confidence <= detected_objects[k].confidence
                   /\ \A m \in 1..(k - 1) :
                         detected_objects[m].confidence < detected_objects[k].confidence
    IN  detected_objects[CHOOSE k \in DOMAIN detected_objects : best(k)]

\* SortingSystem.sorting_zones
sorting_zones(size, color) ==
    << CASE color = "red" -> 900 [] color = "green" -> 1050 [] color = "blue" -> 1200,
       CASE size = "small" -> 300 [] size = "medium" -> 450 [] size = "large" -> 600 >>

\* SortingSystem.__init__, but for its arm, which is
\* create_4dof_arm_configuration()
SortingSystem_init ==
    [ conveyor           |-> ConveyorBelt_init(2400, 450, <<1, 2>>),
      heap               |-> << >>,
      detection_zone     |-> << 0, 600, -900 >>,
      objects_sorted     |-> 0,
      correct_sorts      |-> 0,
      detection_attempts |-> 0,
      pick_attempts      |-> 0,
      successful_picks   |-> 0,
      current_target     |-> None,
      picking_object     |-> 0,
      arm_state          |-> "scanning" ]

\* A configuration of the moving arm is irrational: it is kept as the triple
\* <<from, to, s>>, the point at distance s from the vector from on the line
\* towards the vector to; a configuration at rest is the 4-vector itself.
OnLine(v) == Len(v) = 3

\* np.linalg.norm(to - from), squared: angles are in quarter turns, lengths
\* in 1/300
NormSq(self, from, to) ==
    Sum([ i \in 1..Len(self.joints) |->
            IF self.joints[i].joint_type = "revolute"
            THEN QuarterTurnSq * Sq(to[i] - from[i])
            ELSE Sq(to[i] - from[i]) ])

\* the integer part of the square root of n
RECURSIVE RootBetween(_, _, _)
RootBetween(n, lo, hi) ==
    IF lo = hi THEN lo
    ELSE LET mid == (lo + hi + 1) \div 2
         IN  IF mid * mid <= n THEN RootBetween(n, mid, hi)
             ELSE RootBetween(n, lo, mid - 1)

Root(n) == RootBetween(n, 0, 4000)

\* a > sqrt(n) * m, for a, m >= 0
Exceeds(a, m, n) ==
    LET q == a \div m
        r == Root(n)
    IN  IF q > r THEN TRUE
        ELSE IF q < r THEN FALSE
        ELSE Sq(a) > n * Sq(m)

\* Joint.set_value's test min_limit <= value <= max_limit for entry i of a
\* configuration on a line
Joint_accepts_on_line(robot, point, i) ==
    LET joint == robot.joints[i]
        from  == point[1]
        to    == point[2]
        s     == point[3]
        delta == to[i] - from[i]
        slack == IF delta > 0 THEN joint.max_limit - to[i] ELSE to[i] - joint.min_limit
    IN  /\ joint.min_limit <= from[i] /\ from[i] <= joint.max_limit
        /\ joint.min_limit <= to[i] /\ to[i] <= joint.max_limit
        /\ \/ delta = 0
           \/ Sq(s) <= NormSq(robot, from, to)
           \/ ~Exceeds(s * Abs(delta), Abs(delta) + slack, NormSq(robot, from, to))

\* RoboticArm4DOF.set_joint_configuration with a configuration on a line:
\* every joint that accepts its entry keeps it, and joint_values changes only
\* when every joint accepted
RoboticArm4DOF_set_joint_configuration_on_line(self, point) ==
    LET ok(i) == Joint_accepts_on_line(self, point, i)
        valid == \A i \in 1..Len(self.joints) : ok(i)
    IN  [ ret  |-> valid,
          self |-> [self EXCEPT
                      !.joints = [ i \in 1..Len(self.joints) |->
                                     IF ok(i) THEN [self.joints[i] EXCEPT
                                                      !.value = << point, i >>]
                                     ELSE self.joints[i] ],
                      !.joint_values = IF valid THEN point ELSE @] ]

\* the body of execute_pick_movement and of execute_sort_movement: whether
\* the arm was close enough to current_target, and the arm afterwards
SortingSystem_move(robot, current_target, dt) ==
    LET current_config == robot.joint_values
        from      == IF OnLine(current_config) THEN current_config[1] ELSE current_config
        s         == IF OnLine(current_config) THEN current_config[3] ELSE 0
        norm_sq   == NormSq(robot, from, current_target)
        step_size == 2 * dt
        close     == /\ norm_sq < Sq(s + Close)
                     /\ s < Close \/ Sq(s - Close) < norm_sq
        s2        == IF Sq(s) < norm_sq THEN s + step_size ELSE s - step_size
    IN  IF close
        THEN [ close |-> TRUE,
               arm   |-> RoboticArm4DOF_set_joint_configuration(robot, current_target).self ]
        ELSE [ close |-> FALSE,
               arm   |-> IF s2 = 0
                         THEN RoboticArm4DOF_set_joint_configuration(robot, from).self
                         ELSE RoboticArm4DOF_set_joint_configuration_on_line(
                                  robot, << from, current_target, s2 >>).self ]

\* SortingSystem.start_pick_sequence: the possible outcomes, each the system
\* and its arm afterwards
SortingSystem_start_pick_sequence(self, robot, detection) ==
    LET pick_pos == << detection.position[1], detection.position[2] + 90 >>
        s1 == [self EXCEPT !.detection_attempts = @ + 1,
                           !.picking_object = detection.object]
    IN  { [ self |-> IF o.ret.success
                     THEN [s1 EXCEPT !.current_target = o.ret.joint_solution,
                                     !.arm_state = "moving_to_pick",
                                     !.pick_attempts = @ + 1]
                     ELSE [s1 EXCEPT !.arm_state = "scanning"],
            arm  |-> o.self ] :
            o \in RoboticArm4DOF_inverse_kinematics(robot, pick_pos, None) }

\* SortingSystem.execute_pick: the possible outcomes
SortingSystem_execute_pick(self, robot) ==
    IF self.picking_object # 0 /\ ~self.heap[self.picking_object].picked
    THEN LET obj == self.heap[self.picking_object]
             s1  == [self EXCEPT !.heap[self.picking_object].picked = TRUE,
                                 !.successful_picks = @ + 1]
             sort_pos == sorting_zones(obj.size, obj.color)
         IN  IF obj.size \in Sizes /\ obj.color \in Colors
             THEN { [ self |-> IF o.ret.success
                               THEN [s1 EXCEPT !.current_target = o.ret.joint_solution,
                                               !.arm_state = "moving_to_sort"]
                               ELSE [s1 EXCEPT !.arm_state = "scanning"],
                      arm  |-> o.self ] :
                      o \in RoboticArm4DOF_inverse_kinematics(robot, sort_pos, None) }
             ELSE { [ self |-> [s1 EXCEPT !.arm_state = "scanning"], arm |-> robot ] }
    ELSE { [ self |-> self, arm |-> robot ] }

\* SortingSystem.execute_pick_movement: the possible outcomes
SortingSystem_execute_pick_movement(self, robot, dt) ==
    IF self.current_target # None
    THEN LET m == SortingSystem_move(robot, self.current_target, dt)
         IN  IF m.close THEN SortingSystem_execute_pick(self, m.arm)
             ELSE { [ self |-> self, arm |-> m.arm ] }
    ELSE { [ self |-> self, arm |-> robot ] }

\* mutant: current_target survives the sort
SortingSystem_execute_sort_keeps_target(self, robot) ==
    IF self.picking_object # 0
    THEN LET obj == self.heap[self.picking_object]
         IN  [ self |-> [self EXCEPT !.heap[self.picking_object].sorted = TRUE,
                                     !.objects_sorted = @ + 1,
                                     !.correct_sorts = @ + 1,
                                     !.picking_object = 0,
                                     !.arm_state = "scanning"],
               arm  |-> robot ]
    ELSE [ self |-> self, arm |-> robot ]

\* mutant: correct_sorts is not kept within objects_sorted
SortingSystem_execute_sort_counts_twice(self, robot) ==
    IF self.picking_object # 0
    THEN LET obj == self.heap[self.picking_object]
         IN  [ self |-> [self EXCEPT !.heap[self.picking_object].sorted = TRUE,
                                     !.objects_sorted = @ + 1,
                                     !.correct_sorts = @ + 2,
                                     !.picking_object = 0,
                                     !.current_target = None,
                                     !.arm_state = "scanning"],
               arm  |-> robot ]
    ELSE [ self |-> self, arm |-> robot ]

\* SortingSystem.execute_sort; its test of a correct sort compares the size
\* and the color of picking_object with themselves
SortingSystem_execute_sort(self, robot) ==
    IF self.picking_object # 0
    THEN LET obj == self.heap[self.picking_object]
         IN  [ self |-> [self EXCEPT !.heap[self.picking_object].sorted = TRUE,
                                     !.objects_sorted = @ + 1,
                                     !.correct_sorts =
                                         IF obj.size = obj.size /\ obj.color = obj.color
                                         THEN @ + 1 ELSE @,
                                     !.picking_object = 0,
                                     !.current_target = None,
                                     !.arm_state = "scanning"],
               arm  |-> robot ]
    ELSE [ self |-> self, arm |-> robot ]

\* SortingSystem.execute_sort_movement
SortingSystem_execute_sort_movement(self, robot, dt) ==
    IF self.current_target # None
    THEN LET m == SortingSystem_move(robot, self.current_target, dt)
         IN  IF m.close THEN SortingSystem_execute_sort(self, m.arm)
             ELSE [ self |-> self, arm |-> m.arm ]
    ELSE [ self |-> self, arm |-> robot ]

\* SortingSystem.update: the possible outcomes, each the system and its arm
\* afterwards, the detection handed to start_pick_sequence (or None) and the
\* method update called.  best is what max(detected_objects, key=confidence)
\* may be; start_pick_sequence reads the object and the position of the
\* detection only, which the detections of one object share
SortingSystem_update(self, robot, dt, wall, spawn) ==
    LET belt == ConveyorBelt_update(self.conveyor, self.heap, dt, wall, spawn)
        s1   == [self EXCEPT !.conveyor = belt.self, !.heap = belt.heap]
        best == { BestDetection(detected_objects) :
                  detected_objects \in
                      { d \in ObjectDetector_detect_objects(
                                  s1.conveyor.objects, s1.heap, s1.detection_zone) :
                          d # << >> } }
        idle == { [ self |-> s1, arm |-> robot, detection |-> None, called |-> "" ] }
    IN  IF s1.arm_state = "scanning"
        THEN IF best = {} THEN idle
             ELSE UNION { LET of_object == { d \in best : d.object = id }
                              started   == SortingSystem_start_pick_sequence(
                                               s1, robot, CHOOSE d \in of_object : TRUE)
                          IN  { [ self |-> o.self, arm |-> o.arm,
                                  detection |-> best_detection,
                                  called |-> "start_pick_sequence" ] :
                                  best_detection \in of_object, o \in started } :
                          id \in { d.object : d \in best } }
        ELSE IF s1.arm_state = "moving_to_pick"
        THEN { [ self |-> o.self, arm |-> o.arm, detection |-> None,
                 called |-> "execute_pick_movement" ] :
                 o \in SortingSystem_execute_pick_movement(s1, robot, dt) }
        ELSE IF s1.arm_state = "moving_to_sort"
        THEN LET o == SortingSystem_execute_sort_movement(s1, robot, dt)
             IN  { [ self |-> o.self, arm |-> o.arm, detection |-> None,
                     called |-> "execute_sort_movement" ] }
        ELSE idle

\* SortingSystem.get_performance_metrics: the quotients as
\* <<numerator, denominator>>, 0 as <<0, 1>>; elapsed is the wall-clock time
\* since start_time
SortingSystem_get_performance_metrics(self, elapsed) ==
    LET guarded(a, b) == IF self.detection_attempts > 0 /\ b > 0
                         THEN << a, b >> ELSE << 0, 1 >>
    IN  [ objects_processed  |-> Len(self.conveyor.objects),
          objects_sorted     |-> self.objects_sorted,
          detection_attempts |-> self.detection_attempts,
          successful_picks   |-> self.successful_picks,
          pick_success_rate  |-> guarded(self.successful_picks, self.pick_attempts),
          sort_accuracy      |-> guarded(self.correct_sorts, self.objects_sorted),
          system_throughput  |-> << self.objects_sorted,
                                    IF elapsed > 1 THEN elapsed ELSE 1 >> ]

----------------------------------------------------------------------------
(* The arms a scenario constructs *)

\* link lengths [3.0, 2.5, 1.5], [3.0, 2.0] and [2.5, 2.0, 1.5], the last
\* with joint limits of its own (pi, pi/2 and, in place of the script's
\* pi/3, pi/2 again)
ArmConfigs ==
    { [ link_lengths |-> <<900, 750, 450>>, joint_limits |-> None ],
      [ link_lengths |-> <<900, 600>>,      joint_limits |-> None ],
      [ link_lengths |-> <<750, 600, 450>>,
        joint_limits |-> << <<-Pi, Pi>>, <<-1, 1>>, <<-1, 1>> >> ] }

\* create_4dof_arm_configuration's limits
SampleLimits == << <<-Pi, Pi>>, <<-1, 1>>, <<0, 600>>, <<-Pi, Pi>> >>

SampleTypes == << "revolute", "revolute", "prismatic", "revolute" >>

\* create_4dof_arm_configuration ([2.0, 1.5, 0.0, 1.0]); the same joints on
\* links [1.0, 2.0, 0.0, 1.0]; and on the two links [2.0, 1.5] only
Arm4Configs ==
    { [ base_links |-> <<600, 450, 0, 300>>, joint_types |-> SampleTypes,
        joint_limits |-> SampleLimits ],
      [ base_links |-> <<300, 600, 0, 300>>, joint_types |-> SampleTypes,
        joint_limits |-> SampleLimits ],
      [ base_links |-> <<600, 450>>, joint_types |-> SampleTypes,
        joint_limits |-> SampleLimits ] }

\* the object of the class the scenario did not construct
NoArm == RoboticArm_init(<<900, 750, 450>>, None)

NoArm4 == RoboticArm4DOF_init(<<600, 450, 0, 300>>, SampleTypes, SampleLimits)

NoWs == [ resolution |-> 0 ]

\* the simulation of a scenario that constructs none
NoSim == PickAndPlaceSimulation_init

\* the sorting system of a scenario that constructs none
NoSystem == SortingSystem_init

Init ==
    /\ cls \in { "RoboticArm", "RoboticArm4DOF" }
    /\ IF cls = "RoboticArm"
       THEN /\ arm \in { RoboticArm_init(c.link_lengths, c.joint_limits) : c \in ArmConfigs }
            /\ arm4 = NoArm4
       ELSE /\ arm = NoArm
            /\ arm4 \in { RoboticArm4DOF_init(c.base_links, c.joint_types, c.joint_limits) :
                            c \in Arm4Configs }
    /\ last = [ op |-> "__init__" ]
    /\ pc = "idle"
    /\ ws = NoWs
    /\ ik_calls = << >>
    /\ sim = NoSim
    /\ system = NoSystem

----------------------------------------------------------------------------
(* Public calls on the constructed arm, one action per call *)

AngleInputs == { Prefix(v, arm.num_joints) : v \in AngleVectors }

\* arm.set_joint_angles(angles)
Call_RoboticArm_set_joint_angles(angles) ==
    /\ pc = "idle" /\ cls = "RoboticArm"
    /\ arm' = RoboticArm_set_joint_angles(arm, angles)
    /\ last' = [ op |-> "RoboticArm.set_joint_angles", args |-> <<angles>> ]
    /\ UNCHANGED <<cls, arm4, pc, ws, ik_calls, sim, system>>

\* arm.forward_kinematics(joint_angles)
Call_RoboticArm_forward_kinematics(joint_angles) ==
    /\ pc = "idle" /\ cls = "RoboticArm"
    /\ last' = [ op   |-> "RoboticArm.forward_kinematics",
                 args |-> <<joint_angles>>,
                 ret  |-> RoboticArm_forward_kinematics(arm, joint_angles) ]
    /\ UNCHANGED <<cls, arm, arm4, pc, ws, ik_calls, sim, system>>

\* mutant: a solution found is committed to the arm
Call_RoboticArm_inverse_kinematics_commits(target, initial_guess) ==
    /\ pc = "idle" /\ cls = "RoboticArm"
    /\ \E o \in RoboticArm_inverse_kinematics(arm, target[1], target[2], initial_guess) :
          /\ last' = [ op     |-> "RoboticArm.inverse_kinematics",
                       args   |-> <<target, initial_guess>>,
                       guess  |-> o.guess,
                       result |-> o.result,
                       ret    |-> o.ret ]
          /\ arm' = IF o.ret = None THEN arm ELSE RoboticArm_set_joint_angles(arm, o.ret)
    /\ UNCHANGED <<cls, arm4, pc, ws, ik_calls, sim, system>>

\* arm.inverse_kinematics(target_x, target_y, initial_guess)
Call_RoboticArm_inverse_kinematics(target, initial_guess) ==
    /\ pc = "idle" /\ cls = "RoboticArm"
    /\ \E o \in RoboticArm_inverse_kinematics(arm, target[1], target[2], initial_guess) :
          last' = [ op     |-> "RoboticArm.inverse_kinematics",
                    args   |-> <<target, initial_guess>>,
                    guess  |-> o.guess,
                    result |-> o.result,
                    ret    |-> o.ret ]
    /\ UNCHANGED <<cls, arm, arm4, pc, ws, ik_calls, sim, system>>

\* arm.joints[i].set_value(value)
Call_Joint_set_value(i, value) ==
    /\ pc = "idle" /\ cls = "RoboticArm4DOF"
    /\ LET o == Joint_set_value(arm4.joints[i], value)
       IN  /\ arm4' = [arm4 EXCEPT !.joints[i] = o.self]
           /\ last' = [ op |-> "Joint.set_value", args |-> <<i, value>>, ret |-> o.ret ]
    /\ UNCHANGED <<cls, arm, pc, ws, ik_calls, sim, system>>

\* arm.set_joint_configuration(joint_values)
Call_RoboticArm4DOF_set_joint_configuration(joint_values) ==
    /\ pc = "idle" /\ cls = "RoboticArm4DOF"
    /\ LET o == RoboticArm4DOF_set_joint_configuration(arm4, joint_values)
       IN  /\ arm4' = o.self
           /\ last' = [ op   |-> "RoboticArm4DOF.set_joint_configuration",
                        args |-> <<joint_values>>,
                        ret  |-> o.ret ]
    /\ UNCHANGED <<cls, arm, pc, ws, ik_calls, sim, system>>

\* arm.forward_kinematics(joint_values)
Call_RoboticArm4DOF_forward_kinematics(joint_values) ==
    /\ pc = "idle" /\ cls = "RoboticArm4DOF"
    /\ Len(arm4.calculation_times) + 1 <= MaxTimes
    /\ LET o == RoboticArm4DOF_forward_kinematics(arm4, joint_values)
       IN  /\ arm4' = o.self
           /\ last' = [ op   |-> "RoboticArm4DOF.forward_kinematics",
                        args |-> <<joint_values>>,
                        ret  |-> o.ret ]
    /\ UNCHANGED <<cls, arm, pc, ws, ik_calls, sim, system>>

\* arm.inverse_kinematics(target_pos, initial_guess)
Call_RoboticArm4DOF_inverse_kinematics(target_pos, initial_guess) ==
    /\ pc = "idle" /\ cls = "RoboticArm4DOF"
    /\ \E o \in RoboticArm4DOF_inverse_kinematics(arm4, target_pos, initial_guess) :
          /\ Len(o.self.calculation_times) <= MaxTimes
          /\ arm4' = o.self
          /\ last' = [ op     |-> "RoboticArm4DOF.inverse_kinematics",
                       args   |-> <<target_pos, initial_guess>>,
                       guess  |-> o.guess,
                       result |-> o.result,
                       ret    |-> o.ret ]
    /\ UNCHANGED <<cls, arm, pc, ws, ik_calls, sim, system>>

\* initial guesses passed to inverse_kinematics: none, or an explicit vector
GuessAngles == { None, <<1, 0, 0>> }

GuessValues == { None, <<1, 0, 300, 0>> }

Next ==
    \/ \E a \in AngleInputs : Call_RoboticArm_set_joint_angles(a)
    \/ \E a \in AngleInputs \cup {None} : Call_RoboticArm_forward_kinematics(a)
    \/ \E t \in Targets, g \in GuessAngles :
          Call_RoboticArm_inverse_kinematics(
              t, IF g = None THEN None ELSE Prefix(g, arm.num_joints))
    \/ \E iv \in SetValueInputs : Call_Joint_set_value(iv[1], iv[2])
    \/ \E v \in JointVectors : Call_RoboticArm4DOF_set_joint_configuration(v)
    \/ \E v \in JointVectors \cup {None} : Call_RoboticArm4DOF_forward_kinematics(v)
    \/ \E t \in Targets4, g \in GuessValues :
          Call_RoboticArm4DOF_inverse_kinematics(t, g)

Spec == Init /\ [][Next]_vars

----------------------------------------------------------------------------
(* The workspace samplers, one action per call, per grid point and per
   return *)

\* np.linspace(-max_reach, max_reach, resolution)[k], k counted from 0 (the
\* division is exact for the arms and resolutions of the model)
linspace(max_reach, resolution, k) ==
    IF resolution = 1 THEN -max_reach
    ELSE -max_reach + (2 * max_reach * k) \div (resolution - 1)

\* mutant: the outer loop runs over y_range, the inner one over x_range
GridPoint_y_major(w) ==
    << linspace(w.max_reach, w.resolution, w.j), linspace(w.max_reach, w.resolution, w.i) >>

\* the grid point of the loop indices i (over x_range) and j (over y_range)
GridPoint(w) ==
    << linspace(w.max_reach, w.resolution, w.i), linspace(w.max_reach, w.resolution, w.j) >>

\* the loop indices of the next grid point, y_range being the inner loop
NextIndex(w) ==
    IF w.j + 1 < w.resolution THEN [w EXCEPT !.j = @ + 1]
    ELSE [w EXCEPT !.i = @ + 1, !.j = 0]

\* mutant: the solver runs on every grid point, the oracle is not consulted
RoboticArm_get_workspace_point_unfiltered(self, x, y) ==
    { [ called |-> TRUE, success |-> o.ret # None ] :
        o \in RoboticArm_inverse_kinematics(self, x, y, None) }

\* the body of the loop of RoboticArm.get_workspace for the point (x, y):
\* whether inverse_kinematics was called, and whether the point was appended
\* to reachable_points
RoboticArm_get_workspace_point(self, x, y) ==
    IF RoboticArm_is_reachable(self, x, y)
    THEN { [ called |-> TRUE, success |-> o.ret # None ] :
             o \in RoboticArm_inverse_kinematics(self, x, y, None) }
    ELSE { [ called |-> FALSE, success |-> FALSE ] }

\* arm.get_workspace(resolution), up to the loop
Start_RoboticArm_get_workspace(resolution) ==
    /\ pc = "idle" /\ cls = "RoboticArm"
    /\ pc' = "get_workspace"
    /\ ws' = [ resolution |-> resolution, max_reach |-> Sum(arm.link_lengths),
               i |-> 0, j |-> 0, reachable_points |-> << >>, all_points |-> << >> ]
    /\ ik_calls' = << >>
    /\ last' = [ op |-> "RoboticArm.get_workspace", args |-> <<resolution>> ]
    /\ UNCHANGED <<cls, arm, arm4, sim, system>>

\* one iteration of the loop of get_workspace
Step_RoboticArm_get_workspace ==
    /\ pc = "get_workspace" /\ ws.i < ws.resolution
    /\ LET p == GridPoint(ws)
       IN  \E o \in RoboticArm_get_workspace_point(arm, p[1], p[2]) :
              /\ ws' = [ NextIndex(ws) EXCEPT
                           !.all_points = Append(@, p),
                           !.reachable_points = IF o.success THEN Append(@, p) ELSE @ ]
              /\ ik_calls' = IF o.called
                             THEN Append(ik_calls, [ target |-> p, success |-> o.success ])
                             ELSE ik_calls
    /\ UNCHANGED <<cls, arm, arm4, last, pc, sim, system>>

\* the return of get_workspace
Return_RoboticArm_get_workspace ==
    /\ pc = "get_workspace" /\ ws.i = ws.resolution
    /\ pc' = "idle"
    /\ last' = [ op   |-> "RoboticArm.get_workspace",
                 args |-> <<ws.resolution>>,
                 ret  |-> [ reachable_points |-> ws.reachable_points,
                            all_points       |-> ws.all_points ] ]
    /\ ws' = NoWs
    /\ UNCHANGED <<cls, arm, arm4, ik_calls, sim, system>>

\* mutant: the solver runs only on the grid points within max_reach
RoboticArm4DOF_get_workspace_analysis_point_filtered(self, target) ==
    IF DistSq(target, <<0, 0>>) <= Sq(RoboticArm4DOF_max_reach(self))
    THEN { [ called |-> TRUE, success |-> o.ret.success, self |-> o.self ] :
             o \in RoboticArm4DOF_inverse_kinematics(self, target, None) }
    ELSE { [ called |-> FALSE, success |-> FALSE, self |-> self ] }

\* the body of the loop of RoboticArm4DOF.get_workspace_analysis for one
\* target, before the progress indicator: whether inverse_kinematics was
\* called, whether the target was appended to reachable_points, and the arm
\* afterwards
RoboticArm4DOF_get_workspace_analysis_point(self, target) ==
    { [ called |-> TRUE, success |-> o.ret.success, self |-> o.self ] :
        o \in RoboticArm4DOF_inverse_kinematics(self, target, None) }

\* arm.get_workspace_analysis(resolution), up to the loop; max() of no
\* prismatic joint raises ValueError
Start_RoboticArm4DOF_get_workspace_analysis(resolution) ==
    /\ pc = "idle" /\ cls = "RoboticArm4DOF"
    /\ Len(arm4.calculation_times) <= MaxTimes
    /\ ik_calls' = << >>
    /\ IF PrismaticMaxLimits(arm4) = {}
       THEN /\ pc' = "raised"
            /\ ws' = NoWs
            /\ last' = [ op     |-> "RoboticArm4DOF.get_workspace_analysis",
                         args   |-> <<resolution>>,
                         raised |-> "ValueError" ]
       ELSE /\ pc' = "get_workspace_analysis"
            /\ ws' = [ resolution |-> resolution,
                       max_reach |-> RoboticArm4DOF_max_reach(arm4),
                       i |-> 0, j |-> 0, reachable_points |-> << >>,
                       total_points |-> resolution * resolution ]
            /\ last' = [ op   |-> "RoboticArm4DOF.get_workspace_analysis",
                         args |-> <<resolution>> ]
    /\ UNCHANGED <<cls, arm, arm4, sim, system>>

\* one iteration of the loop of get_workspace_analysis; the progress
\* indicator takes (i * resolution + j) modulo total_points // 10, which
\* raises ZeroDivisionError when total_points < 10
Step_RoboticArm4DOF_get_workspace_analysis ==
    /\ pc = "get_workspace_analysis" /\ ws.i < ws.resolution
    /\ LET p == GridPoint(ws)
       IN  \E o \in RoboticArm4DOF_get_workspace_analysis_point(arm4, p) :
              /\ arm4' = o.self
              /\ ik_calls' = IF o.called
                             THEN Append(ik_calls, [ target |-> p, success |-> o.success ])
                             ELSE ik_calls
              /\ LET w == [ ws EXCEPT !.reachable_points =
                                         IF o.success THEN Append(@, p) ELSE @ ]
                 IN  IF ws.total_points \div 10 = 0
                     THEN /\ pc' = "raised"
                          /\ ws' = w
                          /\ last' = [ op     |-> "RoboticArm4DOF.get_workspace_analysis",
                                       args   |-> <<ws.resolution>>,
                                       raised |-> "ZeroDivisionError" ]
                     ELSE /\ pc' = pc
                          /\ ws' = NextIndex(w)
                          /\ last' = last
    /\ UNCHANGED <<cls, arm, sim, system>>

\* mutant: the ratio counts the points left out of reachable_points
RoboticArm4DOF_reachability_ratio_unreached(reachable_points, total_points) ==
    << total_points - Len(reachable_points), total_points >>

\* reachability_ratio of get_workspace_analysis:
\* len(reachable_points) / total_points, as <<numerator, denominator>>
RoboticArm4DOF_reachability_ratio(reachable_points, total_points) ==
    << Len(reachable_points), total_points >>

\* workspace_area of get_workspace_analysis:
\* len(reachable_points) * (2 * max_reach / resolution) ** 2, as
\* <<numerator, denominator>>
RoboticArm4DOF_workspace_area(reachable_points, max_reach, resolution) ==
    << Len(reachable_points) * Sq(2 * max_reach), Sq(resolution) >>

\* the return of get_workspace_analysis: workspace_data, its two quotients
\* kept as <<numerator, denominator>>
Return_RoboticArm4DOF_get_workspace_analysis ==
    /\ pc = "get_workspace_analysis" /\ ws.i = ws.resolution
    /\ pc' = "idle"
    /\ last' = [ op   |-> "RoboticArm4DOF.get_workspace_analysis",
                 args |-> <<ws.resolution>>,
                 ret  |-> [ reachable_points    |-> ws.reachable_points,
                            reachability_ratio  |->
                                RoboticArm4DOF_reachability_ratio(
                                    ws.reachable_points, ws.total_points),
                            total_points_tested |-> ws.total_points,
                            workspace_area      |->
                                RoboticArm4DOF_workspace_area(
                                    ws.reachable_points, ws.max_reach, ws.resolution),
                            max_reach           |-> ws.max_reach ] ]
    /\ ws' = NoWs
    /\ UNCHANGED <<cls, arm, arm4, ik_calls, sim, system>>

\* np.sqrt of the length of all_points, a perfect square
sqrt(n) == CHOOSE r \in 0..n : r * r = n

\* mutant: the side of a grid cell is taken over the number of points
\* tested, not over its square root
WorkspaceVisualizer_workspace_area_per_point(reachable_points, all_points, max_reach) ==
    IF Len(reachable_points) > 0
    THEN << Len(reachable_points) * Sq(2 * max_reach),
            Sq(Len(all_points)) >>
    ELSE << 0, 1 >>

\* workspace_area of WorkspaceVisualizer.analyze_workspace_metrics:
\* len(reachable_points) * (2 * max_reach_theoretical /
\* np.sqrt(len(all_points))) ** 2, or 0 with no reachable point, as
\* <<numerator, denominator>>
WorkspaceVisualizer_workspace_area(reachable_points, all_points, max_reach) ==
    IF Len(reachable_points) > 0
    THEN << Len(reachable_points) * Sq(2 * max_reach),
            Sq(sqrt(Len(all_points))) >>
    ELSE << 0, 1 >>

\* WorkspaceVisualizer.analyze_workspace_metrics on the points
\* calculate_workspace stored, the result of robot.get_workspace: the
\* metrics it prints (the largest and smallest distance of a reachable point
\* are left out), the ratio as <<numerator, denominator>>
Call_WorkspaceVisualizer_analyze_workspace_metrics ==
    /\ pc = "idle" /\ cls = "RoboticArm"
    /\ last.op = "RoboticArm.get_workspace"
    /\ LET reachable_points      == last.ret.reachable_points
           all_points            == last.ret.all_points
           max_reach_theoretical == Sum(arm.link_lengths)
       IN  last' = [ op   |-> "WorkspaceVisualizer.analyze_workspace_metrics",
                     args |-> last.args,
                     reachable_points |-> reachable_points,
                     all_points       |-> all_points,
                     printed |->
                       [ max_reach_theoretical |-> max_reach_theoretical,
                         min_reach_theoretical |-> RoboticArm_min_reach(arm),
                         reachability_ratio    |-> << Len(reachable_points),
                                                      Len(all_points) >>,
                         workspace_area        |->
                             WorkspaceVisualizer_workspace_area(
                                 reachable_points, all_points,
                                 max_reach_theoretical) ] ]
    /\ UNCHANGED <<cls, arm, arm4, pc, ws, ik_calls, sim, system>>

\* arms of other assignments of kinds to the four joints: four revolute
\* joints on links [1.0, 1.0, 1.0, 1.0], and two prismatic joints, of max
\* limits 2.0 and 1.0, between two revolute ones on links [2.0, 0, 0, 1.0]
KindConfigs ==
    { [ base_links   |-> <<300, 300, 300, 300>>,
        joint_types  |-> << "revolute", "revolute", "revolute", "revolute" >>,
        joint_limits |-> << <<-Pi, Pi>>, <<-Pi, Pi>>, <<-Pi, Pi>>, <<-Pi, Pi>> >> ],
      [ base_links   |-> <<600, 0, 0, 300>>,
        joint_types  |-> << "revolute", "prismatic", "prismatic", "revolute" >>,
        joint_limits |-> << <<-Pi, Pi>>, <<0, 600>>, <<0, 300>>, <<-Pi, Pi>> >> ] }

\* the arms of Init and, for the 4-DOF class, those of KindConfigs
InitSampling ==
    \/ Init
    \/ /\ cls = "RoboticArm4DOF"
       /\ arm = NoArm
       /\ arm4 \in { RoboticArm4DOF_init(c.base_links, c.joint_types, c.joint_limits) :
                       c \in KindConfigs }
       /\ last = [ op |-> "__init__" ]
       /\ pc = "idle"
       /\ ws = NoWs
       /\ ik_calls = << >>
       /\ sim = NoSim
       /\ system = NoSystem

NextSampling ==
    \/ \E a \in AngleInputs : Call_RoboticArm_set_joint_angles(a)
    \/ \E v \in JointVectors : Call_RoboticArm4DOF_set_joint_configuration(v)
    \/ \E r \in 1..MaxResolution : Start_RoboticArm_get_workspace(r)
    \/ Step_RoboticArm_get_workspace
    \/ Return_RoboticArm_get_workspace
    \/ Call_WorkspaceVisualizer_analyze_workspace_metrics
    \/ \E r \in 1..MaxResolution : Start_RoboticArm4DOF_get_workspace_analysis(r)
    \/ Step_RoboticArm4DOF_get_workspace_analysis
    \/ Return_RoboticArm4DOF_get_workspace_analysis

SpecSampling == InitSampling /\ [][NextSampling]_vars

----------------------------------------------------------------------------
(* The reachability test on arms of any link lengths *)

\* most links of an arm
MaxLinks == 3

\* link lengths 0, 1.5, 2.5 and 3.0, in any number up to MaxLinks and in
\* any order
LinkLists == UNION { [1..n -> {0, 450, 750, 900}] : n \in 1..MaxLinks }

\* points is_reachable is asked about: (4.0, 2.0), (0, 10.0), (-1.0, 0),
\* (4.0, 0) and the point 1/300 short of it, (7.0, 0) and the point 1/300
\* beyond it, (0, -1.5) and the base
ReachPoints ==
    { <<1200, 600>>, <<0, 3000>>, <<-300, 0>>, <<1200, 0>>, <<1199, 0>>,
      <<2100, 0>>, <<2101, 0>>, <<0, -450>>, <<0, 0>> }

\* an arm of any of the link lists, with the default joint limits or with
\* (-pi/2, pi/2) for every joint
InitReach ==
    /\ cls = "RoboticArm"
    /\ arm \in { RoboticArm_init(l, None) : l \in LinkLists }
              \cup { RoboticArm_init(l, [i \in 1..Len(l) |-> <<-1, 1>>]) :
                       l \in LinkLists }
    /\ arm4 = NoArm4
    /\ last = [ op |-> "__init__" ]
    /\ pc = "idle"
    /\ ws = NoWs
    /\ ik_calls = << >>
    /\ sim = NoSim
    /\ system = NoSystem

\* arm.is_reachable(x, y)
Call_RoboticArm_is_reachable(point) ==
    /\ pc = "idle" /\ cls = "RoboticArm"
    /\ last' = [ op   |-> "RoboticArm.is_reachable",
                 args |-> <<point>>,
                 ret  |-> RoboticArm_is_reachable(arm, point[1], point[2]) ]
    /\ UNCHANGED <<cls, arm, arm4, pc, ws, ik_calls, sim, system>>

NextReach ==
    \/ \E a \in { 0, 1 } :
          Call_RoboticArm_set_joint_angles([i \in 1..arm.num_joints |-> a])
    \/ \E p \in ReachPoints : Call_RoboticArm_is_reachable(p)

SpecReach == InitReach /\ [][NextReach]_vars

----------------------------------------------------------------------------
(* The pick-and-place planner: add_object and add_target, and
   plan_pick_and_place with one action per object of its loop *)

\* most objects, and most targets, of a simulation
MaxObjects == 2

\* an object at (4.0, 2.0)
ObjectPoints == { <<1200, 600>> }

\* a target at (-1.0, 0)
TargetPoints == { <<-300, 0>> }

\* angles the robot is left at before planning
PlanAngles == { Prefix(v, arm.num_joints) : v \in { <<1, 0, 0>> } }

\* the robots of the simulation: the three-link arms
PickConfigs == { c \in ArmConfigs : Len(c.link_lengths) = 3 }

InitPick ==
    /\ cls = "RoboticArm"
    /\ arm \in { RoboticArm_init(c.link_lengths, c.joint_limits) : c \in PickConfigs }
    /\ arm4 = NoArm4
    /\ last = [ op |-> "__init__" ]
    /\ pc = "idle"
    /\ ws = NoWs
    /\ ik_calls = << >>
    /\ sim = PickAndPlaceSimulation_init
    /\ system = NoSystem

\* sim.add_object(x, y)
Call_PickAndPlaceSimulation_add_object(point) ==
    /\ pc = "idle" /\ cls = "RoboticArm"
    /\ Len(sim.objects) < MaxObjects
    /\ sim' = PickAndPlaceSimulation_add_object(sim, point[1], point[2])
    /\ last' = [ op |-> "PickAndPlaceSimulation.add_object", args |-> <<point>> ]
    /\ UNCHANGED <<cls, arm, arm4, pc, ws, ik_calls, system>>

\* sim.add_target(x, y)
Call_PickAndPlaceSimulation_add_target(point) ==
    /\ pc = "idle" /\ cls = "RoboticArm"
    /\ Len(sim.target_locations) < MaxObjects
    /\ sim' = PickAndPlaceSimulation_add_target(sim, point[1], point[2])
    /\ last' = [ op |-> "PickAndPlaceSimulation.add_target", args |-> <<point>> ]
    /\ UNCHANGED <<cls, arm, arm4, pc, ws, ik_calls, system>>

\* sim.plan_pick_and_place(), up to the loop over the objects
Start_PickAndPlaceSimulation_plan_pick_and_place ==
    /\ pc = "idle" /\ cls = "RoboticArm"
    /\ pc' = "plan_pick_and_place"
    /\ ws' = PickAndPlaceSimulation_plan_start(sim, arm)
    /\ ik_calls' = << >>
    /\ last' = [ op   |-> "PickAndPlaceSimulation.plan_pick_and_place",
                 args |-> << >> ]
    /\ UNCHANGED <<cls, arm, arm4, sim, system>>

\* one iteration of the loop of plan_pick_and_place
Step_PickAndPlaceSimulation_plan_pick_and_place ==
    /\ pc = "plan_pick_and_place" /\ ws.i < Len(sim.objects)
    /\ \E o \in PickAndPlaceSimulation_plan_object(sim, arm, ws) :
          /\ sim' = o.self
          /\ ws' = o.w
          /\ ik_calls' = ik_calls \o o.calls
    /\ UNCHANGED <<cls, arm, arm4, last, pc, system>>

\* the return of plan_pick_and_place
Return_PickAndPlaceSimulation_plan_pick_and_place ==
    /\ pc = "plan_pick_and_place" /\ ws.i = Len(sim.objects)
    /\ pc' = "idle"
    /\ last' = [ op   |-> "PickAndPlaceSimulation.plan_pick_and_place",
                 args |-> << >>,
                 ret  |-> PickAndPlaceSimulation_plan_return(ws) ]
    /\ ws' = NoWs
    /\ UNCHANGED <<cls, arm, arm4, ik_calls, sim, system>>

NextPick ==
    \/ \E a \in PlanAngles : Call_RoboticArm_set_joint_angles(a)
    \/ \E p \in ObjectPoints : Call_PickAndPlaceSimulation_add_object(p)
    \/ \E p \in TargetPoints : Call_PickAndPlaceSimulation_add_target(p)
    \/ Start_PickAndPlaceSimulation_plan_pick_and_place
    \/ Step_PickAndPlaceSimulation_plan_pick_and_place
    \/ Return_PickAndPlaceSimulation_plan_pick_and_place

SpecPick == InitPick /\ [][NextPick]_vars

----------------------------------------------------------------------------
(* The sorting system: spawn_object() calls before the first update, as every
   caller in the repository makes them, then update(dt) and
   get_performance_metrics() in any order, checked under SpecSorting *)

\* spawn_object() calls made before the first update
MaxSpawnCalls == 1
\* objects the timer of ConveyorBelt.update spawns; the first update always
\* spawns one
MaxTimerSpawns == 1

\* inverse_kinematics calls the arm of the system has made (its counter
\* ik_calculations) after which no further update is followed
MaxSolves == 6

\* dt = 0.2
DtValues == { 60 }

\* the wall-clock time between two updates: that of a simulation running in
\* real time
WallValues == { 60 }

\* the random size and color, and the random offset of y (0.1), of a spawned
\* object
Spawns == { <<"small", "green", 30>> }

\* time.time() - start_time, in seconds
ElapsedValues == { 2 }

InitSorting ==
    /\ cls = "SortingSystem"
    /\ arm = NoArm
    /\ arm4 = NoArm4
    /\ last = [ op |-> "__init__" ]
    /\ pc = "idle"
    /\ ws = NoWs
    /\ ik_calls = << >>
    /\ sim = NoSim
    /\ system = SortingSystem_init

\* system.conveyor.spawn_object()
Call_ConveyorBelt_spawn_object(spawn) ==
    /\ cls = "SortingSystem"
    /\ system.conveyor.last_spawn_time = -1
    /\ Len(system.heap) < MaxSpawnCalls
    /\ LET o == ConveyorBelt_spawn_object(system.conveyor, system.heap,
                                          spawn[1], spawn[2], spawn[3])
       IN  system' = [system EXCEPT !.conveyor = o.self, !.heap = o.heap]
    /\ last' = [ op |-> "ConveyorBelt.spawn_object" ]
    /\ UNCHANGED <<cls, arm, arm4, pc, ws, ik_calls, sim>>

\* the objects the timer of ConveyorBelt.update may spawn
TimerSpawns ==
    IF Len(system.heap) < MaxSpawnCalls + MaxTimerSpawns THEN Spawns ELSE { None }

\* system.update(dt); ws keeps the object, size and color of the detection
\* last handed to start_pick_sequence
Call_SortingSystem_update(dt) ==
    /\ cls = "SortingSystem"
    /\ arm4.ik_calculations < MaxSolves
    /\ \E wall \in WallValues, spawn \in TimerSpawns :
       \E o \in SortingSystem_update(system, arm4, dt, wall, spawn) :
          /\ system' = o.self
          /\ arm4' = o.arm
          /\ ws' = IF o.detection = None THEN ws
                   ELSE [ detection |-> [ object |-> o.detection.object,
                                          size   |-> o.detection.size,
                                          color  |-> o.detection.color ] ]
          /\ last' = [ op |-> "SortingSystem.update", args |-> << dt >>,
                       called |-> o.called ]
    /\ UNCHANGED <<cls, arm, pc, ik_calls, sim>>

\* system.get_performance_metrics()
Call_SortingSystem_get_performance_metrics ==
    /\ cls = "SortingSystem"
    /\ \E elapsed \in ElapsedValues :
          last' = [ op  |-> "SortingSystem.get_performance_metrics",
                    ret |-> SortingSystem_get_performance_metrics(system, elapsed) ]
    /\ UNCHANGED <<cls, arm, arm4, pc, ws, ik_calls, sim, system>>

NextSorting ==
    \/ \E spawn \in Spawns : Call_ConveyorBelt_spawn_object(spawn)
    \/ \E dt \in DtValues : Call_SortingSystem_update(dt)
    \/ Call_SortingSystem_get_performance_metrics

SpecSorting == InitSorting /\ [][NextSorting]_vars

\* what an update leaves in last
UpdateCalls ==
    { [ op |-> "SortingSystem.update", args |-> << dt >>, called |-> c ] :
        dt \in DtValues,
        c \in { "", "start_pick_sequence", "execute_pick_movement",
                "execute_sort_movement" } }

\* an update has been made
UpdateCalled == cls = "SortingSystem" /\ last' \in UpdateCalls

\* the caller's loop, which reads the metrics between updates, keeps calling
\* update
SpecSortingFair == SpecSorting /\ WF_last(UpdateCalled)

----------------------------------------------------------------------------
(* Claims about the public calls, checked under Spec *)

Origin == <<0, 0>>

StoredValues(self) == [i \in 1..Len(self.joints) |-> self.joints[i].value]

InLimits4(self, v) ==
    \A i \in 1..NumJoints4 :
        self.joints[i].min_limit <= v[i] /\ v[i] <= self.joints[i].max_limit

\* C1: set_joint_configuration commits atomically: with every supplied value
\* within limits it returns True and all joints and joint_values take the new
\* values; with any value out of range it returns False and neither
\* joint_values nor the value of any Joint changes.
C1_SetConfigurationAtomic ==
    [][ last'.op = "RoboticArm4DOF.set_joint_configuration" =>
          LET v == last'.args[1]
          IN  IF InLimits4(arm4, v)
              THEN /\ last'.ret = TRUE
                   /\ arm4'.joint_values = v
                   /\ StoredValues(arm4') = v
              ELSE /\ last'.ret = FALSE
                   /\ arm4'.joint_values = arm4.joint_values
                   /\ StoredValues(arm4') = StoredValues(arm4) ]_vars

\* C3: is_reachable has no false negatives: for every joint-angle vector V
\* within the joint limits, is_reachable(forward_kinematics(V)) is True.
C3_IsReachableNecessary ==
    ( /\ last.op = "RoboticArm.forward_kinematics"
      /\ last.args[1] # None
      /\ RoboticArm_constraint(arm, last.args[1]) )
    => RoboticArm_is_reachable(arm, last.ret.end_effector_pos[1],
                               last.ret.end_effector_pos[2])

\* the point e is the closest point to the target t among the points at
\* distance max_reach or less from the base: at distance max_reach, on the
\* ray from the base through t
ClosestTo(e, t, max_reach) ==
    /\ DistSq(e, Origin) = Sq(max_reach)
    /\ e[1] * t[2] = e[2] * t[1]
    /\ e[1] * t[1] + e[2] * t[2] > 0

\* C4: for every target farther from the base than max_reach,
\* inverse_kinematics returns the no-solution result in both classes,
\* whatever the optimizer's convergence flag is when it stops at the closest
\* point it can reach.
C4_BeyondMaxReachFails ==
    /\ ( /\ last.op = "RoboticArm.inverse_kinematics"
         /\ DistSq(last.args[1], Origin) > Sq(Sum(arm.link_lengths))
         /\ ClosestTo(RoboticArm_forward_kinematics(arm, last.result.x).end_effector_pos,
                      last.args[1], Sum(arm.link_lengths)) )
       => last.ret = None
    /\ ( /\ last.op = "RoboticArm4DOF.inverse_kinematics"
         /\ DistSq(last.args[1], Origin) > Sq(RoboticArm4DOF_max_reach(arm4))
         /\ ClosestTo(RoboticArm4DOF_fk_ret(arm4, last.result.x).end_effector_pos,
                      last.args[1], RoboticArm4DOF_max_reach(arm4)) )
       => last.ret.success = FALSE

\* C6: RoboticArm4DOF.inverse_kinematics reports success exactly when the
\* optimizer converged and its final objective is strictly below 0.01 (and
\* then returns the optimizer's vector); RoboticArm.inverse_kinematics
\* returns a joint vector, the optimizer's, exactly when the optimizer
\* converged, with no residual check.
C6_SuccessPolicies ==
    /\ last.op = "RoboticArm4DOF.inverse_kinematics" =>
          /\ last.ret.success = (last.result.success /\ last.result.fun_sq < Sq(Tol))
          /\ last.ret.success => last.ret.joint_solution = last.result.x
    /\ last.op = "RoboticArm.inverse_kinematics" =>
          /\ (last.ret # None) = last.result.success
          /\ last.result.success => last.ret = last.result.x

\* C6 happens: the optimizer converged at exactly 0.01 from the target, which
\* the 4-DOF arm rejects, and the 3-link arm accepted a converged result
\* that is away from its target.
C6_Witness ==
    \/ /\ last.op = "RoboticArm4DOF.inverse_kinematics"
       /\ last.result.success /\ last.result.fun_sq = Sq(Tol)
       /\ ~last.ret.success
    \/ /\ last.op = "RoboticArm.inverse_kinematics"
       /\ last.result.success /\ last.result.fun > 0
       /\ last.ret = last.result.x

\* C7: a failed solve is a value: RoboticArm.inverse_kinematics returns None,
\* RoboticArm4DOF.inverse_kinematics returns (False, v) with v the initial
\* guess passed in, or the stored joint values when none was passed.
C7_FailureIsAValue ==
    /\ (last.op = "RoboticArm.inverse_kinematics" /\ ~last.result.success)
          => last.ret = None
    /\ ( /\ last.op = "RoboticArm4DOF.inverse_kinematics"
         /\ ~(last.result.success /\ last.result.fun_sq < Sq(Tol)) )
          => /\ last.ret.success = FALSE
             /\ last.ret.joint_solution =
                  IF last.args[2] = None THEN arm4.joint_values ELSE last.args[2]

\* C7 happens: a solve failed at a vector that is neither the guess passed
\* in nor the stored joint values.
C7_Witness ==
    /\ last.op = "RoboticArm4DOF.inverse_kinematics"
    /\ ~last.ret.success
    /\ last.args[2] # None
    /\ last.result.x # last.args[2]
    /\ last.result.x # arm4.joint_values
    /\ arm4.joint_values # last.args[2]

IkOps == { "RoboticArm.inverse_kinematics", "RoboticArm4DOF.inverse_kinematics" }

SetterOps ==
    { "RoboticArm.set_joint_angles", "RoboticArm4DOF.set_joint_configuration",
      "Joint.set_value" }

\* C8: inverse_kinematics never commits its result: a call, successful or
\* not, leaves joint_angles, joint_values and every Joint.value as they were;
\* they change only through set_joint_angles, set_joint_configuration and
\* Joint.set_value.
C8_IkCommitsNothing ==
    [][ /\ last'.op \in IkOps =>
              /\ arm'.joint_angles = arm.joint_angles
              /\ arm4'.joint_values = arm4.joint_values
              /\ StoredValues(arm4') = StoredValues(arm4)
        /\ ( \/ arm'.joint_angles # arm.joint_angles
             \/ arm4'.joint_values # arm4.joint_values
             \/ StoredValues(arm4') # StoredValues(arm4) )
           => last'.op \in SetterOps ]_vars

\* C8 happens: a solve succeeded with a vector other than the stored one.
C8_Witness ==
    \/ /\ last.op = "RoboticArm.inverse_kinematics"
       /\ last.ret # None /\ last.ret # arm.joint_angles
    \/ /\ last.op = "RoboticArm4DOF.inverse_kinematics"
       /\ last.ret.success /\ last.ret.joint_solution # arm4.joint_values

FkOps == { "RoboticArm.forward_kinematics", "RoboticArm4DOF.forward_kinematics" }

\* C9 as stated: forward_kinematics with an explicit vector changes no field
\* of the arm object at all.
C9_FkChangesNoField ==
    [][ (last'.op \in FkOps /\ last'.args[1] # None)
           => (arm' = arm /\ arm4' = arm4) ]_vars

\* the arm with other stored joint values
Moved(self) == [self EXCEPT !.joint_angles = [i \in DOMAIN @ |-> @[i] + 1]]

Moved4(self) ==
    [self EXCEPT !.joint_values = [i \in DOMAIN @ |-> @[i] + 1],
                 !.joints = [i \in DOMAIN @ |-> [@[i] EXCEPT !.value = @ + 1]]]

\* C9 as amended: forward_kinematics with an explicit vector changes no field
\* of a RoboticArm; of a RoboticArm4DOF it changes the performance metrics
\* only (fk_calculations grows by one, calculation_times by one entry), and
\* no joint value, joint or link length; the positions returned are those of
\* the vector, whatever the stored joint values are.
C9_FkChangesMetricsOnly ==
    [][ /\ (last'.op = "RoboticArm.forward_kinematics" /\ last'.args[1] # None) =>
              /\ arm' = arm /\ arm4' = arm4
              /\ last'.ret = RoboticArm_forward_kinematics(Moved(arm), last'.args[1])
        /\ (last'.op = "RoboticArm4DOF.forward_kinematics" /\ last'.args[1] # None) =>
              /\ arm' = arm
              /\ arm4' = [arm4 EXCEPT !.fk_calculations = @ + 1,
                                      !.calculation_times = Append(@, Elapsed)]
              /\ last'.ret = RoboticArm4DOF_fk_ret(Moved4(arm4), last'.args[1]) ]_vars

\* C9 happens: forward_kinematics ran on an explicit vector that differs
\* from the stored joint values.
C9_Witness ==
    \/ /\ last.op = "RoboticArm.forward_kinematics"
       /\ last.args[1] # None /\ last.args[1] # arm.joint_angles
    \/ /\ last.op = "RoboticArm4DOF.forward_kinematics"
       /\ last.args[1] # None /\ last.args[1] # arm4.joint_values
       /\ arm4.fk_calculations > 1

\* the cumulative orientation after the first i joints: the sum of the
\* values of the revolute joints among them
RECURSIVE Orientation(_, _, _)
Orientation(self, v, i) ==
    IF i = 0 THEN 0
    ELSE Orientation(self, v, i - 1)
         + (IF self.joints[i].joint_type = "revolute" THEN v[i] ELSE 0)

\* C10: RoboticArm4DOF.forward_kinematics returns N+1 positions, the first
\* the base (0, 0) and the last the end effector; a revolute joint advances
\* by its link length along the orientation that includes its own value, a
\* prismatic joint advances by its value along the orientation before it and
\* adds nothing to the orientation.  Links [2.0, 1.5, 0, 1.0] at all-zero
\* values give the end effector (4.5, 0).
C10_FkJointByJoint ==
    last.op = "RoboticArm4DOF.forward_kinematics" =>
        LET v  == IF last.args[1] = None THEN arm4.joint_values ELSE last.args[1]
            jp == last.ret.joint_positions
        IN  /\ Len(jp) = NumJoints4 + 1
            /\ jp[1] = <<0, 0>>
            /\ jp[NumJoints4 + 1] = last.ret.end_effector_pos
            /\ \A i \in 1..NumJoints4 :
                  LET theta == IF arm4.joints[i].joint_type = "revolute"
                               THEN Orientation(arm4, v, i)
                               ELSE Orientation(arm4, v, i - 1)
                      step  == IF arm4.joints[i].joint_type = "revolute"
                               THEN IF i <= Len(arm4.base_links)
                                    THEN arm4.base_links[i] ELSE DefaultLink
                               ELSE v[i]
                  IN  jp[i + 1] = << jp[i][1] + step * Cos(theta),
                                     jp[i][2] + step * Sin(theta) >>
            /\ (arm4.base_links = <<600, 450, 0, 300>> /\ v = Zeros(NumJoints4))
                  => last.ret.end_effector_pos = <<1350, 0>>

\* C10 happens: forward_kinematics ran on a vector that turns the first
\* joint and extends the prismatic joint.
C10_Witness ==
    /\ last.op = "RoboticArm4DOF.forward_kinematics"
    /\ last.args[1] # None
    /\ last.args[1][1] # 0 /\ last.args[1][3] # 0
    /\ last.ret.end_effector_pos[2] # 0

\* C11: after construction and after any sequence of calls of Joint.set_value,
\* RoboticArm4DOF.set_joint_configuration and RoboticArm.set_joint_angles,
\* every stored joint value lies within the closed interval [min, max]
\* declared for its joint.
C11_JointRangeInvariant ==
    /\ cls = "RoboticArm" =>
          \A i \in 1..arm.num_joints :
              /\ arm.joint_limits[i][1] <= arm.joint_angles[i]
              /\ arm.joint_angles[i] <= arm.joint_limits[i][2]
    /\ cls = "RoboticArm4DOF" =>
          \A i \in 1..arm4.num_joints :
              /\ arm4.joints[i].min_limit <= arm4.joints[i].value
              /\ arm4.joints[i].value <= arm4.joints[i].max_limit
              /\ arm4.joints[i].min_limit <= arm4.joint_values[i]
              /\ arm4.joint_values[i] <= arm4.joints[i].max_limit

\* C12: a constructor never returns an arm whose list arguments differ in
\* length: a RoboticArm has one joint limit per link, a RoboticArm4DOF one
\* base link per joint, so that no forward_kinematics, inverse_kinematics or
\* workspace call ever runs on a mismatched arm.
C12_MismatchFailsAtConstruction ==
    /\ cls = "RoboticArm" =>
          Len(arm.joint_limits) = Len(arm.link_lengths)
    /\ cls = "RoboticArm4DOF" =>
          Len(arm4.base_links) = Len(arm4.joints)

Dot(a, b) == a[1] * b[1] + a[2] * b[2]

Minus(a, b) == << a[1] - b[1], a[2] - b[2] >>

\* the vector v turned by a quarter turn: the velocity of a point at v from
\* a pivot that rotates
Rot90(v) == << -v[2], v[1] >>

\* the sign of the derivative of the distance of the end effector to the
\* target with respect to the i-th angle of a RoboticArm
RoboticArm_slope(self, angles, target, i) ==
    LET fk == RoboticArm_forward_kinematics(self, angles)
    IN  Dot(Minus(fk.end_effector_pos, target),
            Rot90(Minus(fk.end_effector_pos, fk.joint_positions[i])))

\* the same for the i-th joint value of a RoboticArm4DOF: a revolute joint
\* turns the end effector about the joint, a prismatic joint slides it along
\* the orientation reached before the joint
RoboticArm4DOF_slope(self, joint_vals, target, i) ==
    LET fk == RoboticArm4DOF_fk_ret(self, joint_vals)
        a  == RoboticArm4DOF_fk_loop(self, joint_vals, i - 1).current_angle
    IN  Dot(Minus(fk.end_effector_pos, target),
            IF self.joints[i].joint_type = "revolute"
            THEN Rot90(Minus(fk.end_effector_pos, fk.joint_positions[i]))
            ELSE << Cos(a), Sin(a) >>)

\* no admissible change of a value x within [lo, hi] lowers an objective of
\* slope g in x
NoDescent(g, x, lo, hi) ==
    \/ g = 0
    \/ g > 0 /\ x = lo
    \/ g < 0 /\ x = hi

\* the vector is a stationary point of the constrained problem the solver
\* is given, the points at which a gradient method such as SLSQP stops
StationaryAngles(self, angles, target) ==
    /\ RoboticArm_constraint(self, angles)
    /\ \A i \in 1..self.num_joints :
          NoDescent(RoboticArm_slope(self, angles, target, i), angles[i],
                    self.joint_limits[i][1], self.joint_limits[i][2])

StationaryValues(self, joint_vals, target) ==
    /\ RoboticArm4DOF_constraint_function(self, joint_vals)
    /\ \A i \in 1..self.num_joints :
          NoDescent(RoboticArm4DOF_slope(self, joint_vals, target, i), joint_vals[i],
                    self.joints[i].min_limit, self.joints[i].max_limit)

\* joint-value vectors within the limits of the sample arm, the last with
\* the first joint at pi
RoundTripValues == CandidateValues \cup { <<2, 0, 0, 0>> }

\* C20: round trip: for every joint-value vector V within the joint ranges,
\* inverse_kinematics on the target forward_kinematics(V) returns success,
\* and forward_kinematics of the vector returned lies within the tolerance
\* (0.01) of forward_kinematics(V), when the optimizer converges at a
\* stationary point of its problem.
C20_RoundTrip ==
    /\ ( /\ last.op = "RoboticArm.inverse_kinematics"
         /\ \E v \in AngleVectors :
               /\ RoboticArm_constraint(arm, Prefix(v, arm.num_joints))
               /\ RoboticArm_forward_kinematics(arm, Prefix(v, arm.num_joints))
                     .end_effector_pos = last.args[1]
         /\ last.result.success
         /\ StationaryAngles(arm, last.result.x, last.args[1]) )
       => /\ last.ret # None
          /\ DistSq(RoboticArm_forward_kinematics(arm, last.ret).end_effector_pos,
                    last.args[1]) < Sq(Tol)
    /\ ( /\ last.op = "RoboticArm4DOF.inverse_kinematics"
         /\ \E v \in RoundTripValues :
               /\ InLimits4(arm4, v)
               /\ RoboticArm4DOF_fk_ret(arm4, v).end_effector_pos = last.args[1]
         /\ last.result.success
         /\ StationaryValues(arm4, last.result.x, last.args[1]) )
       => /\ last.ret.success
          /\ DistSq(RoboticArm4DOF_fk_ret(arm4, last.ret.joint_solution)
                        .end_effector_pos, last.args[1]) < Sq(Tol)

\* C28: joint_values mirrors the joints: after construction and after every
\* set_joint_configuration call, accepted or rejected, joint_values[i] equals
\* the value of joint i for every i (a call made with the two in agreement
\* leaves them in agreement).
C28_JointValuesMirrorJoints ==
    /\ arm4.joint_values = StoredValues(arm4)
    /\ [][ ( /\ last'.op = "RoboticArm4DOF.set_joint_configuration"
             /\ arm4.joint_values = StoredValues(arm4) )
           => arm4'.joint_values = StoredValues(arm4') ]_vars

----------------------------------------------------------------------------
(* Claims about the samplers, checked under SpecSampling *)

\* the targets of the calls that reported success, in call order
RECURSIVE Successes(_)
Successes(calls) ==
    IF calls = << >> THEN << >>
    ELSE (IF calls[1].success THEN << calls[1].target >> ELSE << >>)
         \o Successes(Tail(calls))

AllPass(self, points) ==
    \A k \in DOMAIN points : RoboticArm_is_reachable(self, points[k][1], points[k][2])

\* C2: in RoboticArm.get_workspace inverse_kinematics is invoked only for
\* grid points for which is_reachable returned True, and the reachable set
\* holds only points that passed the oracle (they are the points for which
\* the solver then returned a vector).
C2_OracleBeforeSolver ==
    cls = "RoboticArm" =>
        /\ \A k \in DOMAIN ik_calls :
              RoboticArm_is_reachable(arm, ik_calls[k].target[1], ik_calls[k].target[2])
        /\ pc = "get_workspace" =>
              /\ AllPass(arm, ws.reachable_points)
              /\ ws.reachable_points = Successes(ik_calls)
        /\ (pc = "idle" /\ last.op = "RoboticArm.get_workspace") =>
              /\ AllPass(arm, last.ret.reachable_points)
              /\ last.ret.reachable_points = Successes(ik_calls)

\* C2 happens: a run returned in which the oracle rejected some grid points,
\* the solver failed on a point that passed, and a point is reachable.
C2_Witness ==
    /\ cls = "RoboticArm" /\ pc = "idle" /\ last.op = "RoboticArm.get_workspace"
    /\ Len(ik_calls) < Len(last.ret.all_points)
    /\ Len(last.ret.reachable_points) >= 1
    /\ Len(last.ret.reachable_points) < Len(ik_calls)

\* the reach-bounds oracle for the 4-DOF arm: min_reach is the
\* longest-link-versus-rest bound over the links of the revolute joints
RevoluteLinks(self) ==
    [ i \in { j \in 1..Len(self.joints) : self.joints[j].joint_type = "revolute" } |->
        IF i <= Len(self.base_links) THEN self.base_links[i] ELSE DefaultLink ]

RECURSIVE SumOver(_, _)
SumOver(f, S) ==
    IF S = {} THEN 0 ELSE LET e == CHOOSE e \in S : TRUE IN f[e] + SumOver(f, S \ {e})

Oracle4(self, p) ==
    LET links    == RevoluteLinks(self)
        largest  == SetMax({ links[i] : i \in DOMAIN links })
        total    == SumOver(links, DOMAIN links)
        min_reach == Abs((total - largest) - largest)
        d2       == DistSq(p, Origin)
    IN  Sq(min_reach) <= d2 /\ d2 <= Sq(RoboticArm4DOF_max_reach(self))

GridPointAt(w, k) ==
    << linspace(w.max_reach, w.resolution, (k - 1) \div w.resolution),
       linspace(w.max_reach, w.resolution, (k - 1) % w.resolution) >>

PrismaticMaxSum(self) ==
    LET prismatic == { j \in 1..Len(self.joints) :
                         self.joints[j].joint_type = "prismatic" }
    IN  SumOver([ j \in prismatic |-> self.joints[j].max_limit ], prismatic)

\* C15: the max_reach get_workspace_analysis computes is the sum of the link
\* lengths of the revolute joints plus the sum of the max limits of all
\* prismatic joints, and it is defined (the call does not fail on it) for
\* every assignment of kinds to the four joints, with no prismatic joint and
\* with several included (stated for the arms that have a base link for every
\* joint).
C15_MaxReachDefinedAsSum ==
    (cls = "RoboticArm4DOF" /\ last.op = "RoboticArm4DOF.get_workspace_analysis") =>
        /\ ~(pc = "raised" /\ last.raised = "ValueError")
        /\ (pc = "get_workspace_analysis" /\ Len(arm4.base_links) = arm4.num_joints) =>
              ws.max_reach = SumOver(RevoluteLinks(arm4), DOMAIN RevoluteLinks(arm4))
                             + PrismaticMaxSum(arm4)

\* the k-th (k counted from 0) of R evenly spaced values from -m to m
Coordinate(m, R, k) ==
    IF R = 1 THEN -m ELSE -m + k * ((2 * m) \div (R - 1))

\* the pair of coordinates tested k-th (k counted from 1), x-major
PairAt(m, R, k) ==
    << Coordinate(m, R, (k - 1) \div R), Coordinate(m, R, (k - 1) % R) >>

\* C16: RoboticArm.get_workspace(R) tests exactly R^2 points: every pair of
\* the R evenly spaced coordinate values from -max_reach to +max_reach
\* inclusive, each once, in x-major then y order, and returns all of them in
\* all_points whatever their classification, for every R >= 1.
C16_GridTestedOnceInOrder ==
    cls = "RoboticArm" =>
        LET m == Sum(arm.link_lengths)
        IN  /\ pc = "get_workspace" =>
                  /\ Len(ws.all_points) = ws.i * ws.resolution + ws.j
                  /\ \A k \in DOMAIN ws.all_points :
                        ws.all_points[k] = PairAt(m, ws.resolution, k)
            /\ (pc = "idle" /\ last.op = "RoboticArm.get_workspace") =>
                  LET R  == last.args[1]
                      ap == last.ret.all_points
                  IN  /\ Len(ap) = R * R
                      /\ \A k \in DOMAIN ap : ap[k] = PairAt(m, R, k)
                      /\ Coordinate(m, R, 0) = -m
                      /\ R >= 2 => Coordinate(m, R, R - 1) = m
                      /\ \A a \in 0..(R - 1), b \in 0..(R - 1) :
                            Cardinality({ k \in DOMAIN ap :
                                ap[k] = << Coordinate(m, R, a), Coordinate(m, R, b) >> }) = 1

\* C16 happens: a run over a grid of three or more values a side returned,
\* with some but not all of its points classified reachable.
C16_Witness ==
    /\ cls = "RoboticArm" /\ pc = "idle" /\ last.op = "RoboticArm.get_workspace"
    /\ last.args[1] >= 3
    /\ Len(last.ret.reachable_points) >= 1
    /\ Len(last.ret.reachable_points) < Len(last.ret.all_points)

\* C17: whatever points inverse kinematics fails on, both samplers run to the
\* end of the grid: a loop iteration that leaves its point out of the
\* reachable set, with grid points still to come, goes on to the next grid
\* point and never aborts the operation.
C17_FailedPointDoesNotAbort ==
    [][ ( /\ pc \in { "get_workspace", "get_workspace_analysis" }
          /\ ws.i * ws.resolution + ws.j + 1 < ws.resolution * ws.resolution
          /\ ws'.reachable_points = ws.reachable_points )
        => /\ pc' = pc
           /\ ws'.i = NextIndex(ws).i /\ ws'.j = NextIndex(ws).j ]_vars

\* r holds no point twice
DuplicateFree(r) ==
    \A a \in DOMAIN r, b \in DOMAIN r : a # b => r[a] # r[b]

\* r is t with some entries left out, the others in their order
RECURSIVE IsSubsequence(_, _)
IsSubsequence(r, t) ==
    IF r = << >> THEN TRUE
    ELSE IF t = << >> THEN FALSE
    ELSE IF r[1] = t[1] THEN IsSubsequence(Tail(r), Tail(t))
    ELSE IsSubsequence(r, Tail(t))

\* the reachable points r are a duplicate-free, order-preserving part of the
\* tested points t, of a grid of R values a side
ReachablePart(r, t, R) ==
    /\ DuplicateFree(r)
    /\ IsSubsequence(r, t)
    /\ 0 <= Len(r) /\ Len(r) <= R * R

\* the ratio q, a pair <<numerator, denominator>>, is n / (R * R) and lies
\* in [0, 1]
RatioOf(q, n, R) ==
    /\ q[2] > 0
    /\ q[1] * (R * R) = n * q[2]
    /\ 0 <= q[1] /\ q[1] <= q[2]

\* the targets of the calls of inverse_kinematics, in call order
TargetsOf(calls) == [ k \in DOMAIN calls |-> calls[k].target ]

SameArea(a, b, max_reach) ==
    LET square == Sq(2 * max_reach)
    IN  /\ a[1] % square = 0 /\ b[1] % square = 0
        /\ (a[1] \div square) * b[2] = (b[1] \div square) * a[2]

\* the area a, a pair <<numerator, denominator>>, is n grid cells of side
\* 2 * max_reach / R, which is n / R^2 of the bounding square: 0 with no
\* cell, and at most the bounding square
AreaOf(a, n, max_reach, R) ==
    LET square == Sq(2 * max_reach)
    IN  /\ a[2] > 0
        /\ a[1] % square = 0
        /\ (a[1] \div square) * (R * R) = n * a[2]
        /\ n = 0 => a[1] = 0
        /\ a[1] \div square <= a[2]

\* C19: both area estimators compute |reachable| * (2 * max_reach /
\* sqrt(|tested|))^2: the 3-link formula, dividing by sqrt(len(all_points)),
\* and the 4-DOF formula, dividing by resolution, give the same value for the
\* same reachable points, max_reach and resolution; the estimate is 0 with no
\* reachable point and never above (2 * max_reach)^2.
C19_AreaEstimatorsAgree ==
    /\ last.op = "WorkspaceVisualizer.analyze_workspace_metrics" =>
          LET m == last.printed.max_reach_theoretical
          IN  /\ AreaOf(last.printed.workspace_area, Len(last.reachable_points),
                        m, last.args[1])
              /\ SameArea(last.printed.workspace_area,
                          RoboticArm4DOF_workspace_area(
                              last.reachable_points, m, last.args[1]), m)
    /\ (pc = "idle" /\ last.op = "RoboticArm4DOF.get_workspace_analysis") =>
          LET m == last.ret.max_reach
          IN  /\ AreaOf(last.ret.workspace_area, Len(last.ret.reachable_points),
                        m, last.args[1])
              /\ SameArea(last.ret.workspace_area,
                          WorkspaceVisualizer_workspace_area(
                              last.ret.reachable_points, TargetsOf(ik_calls), m), m)

\* C19 happens: the metrics of a 3-link run over a grid of three or more
\* values a side were computed, with a reachable point.
C19_Witness ==
    /\ last.op = "WorkspaceVisualizer.analyze_workspace_metrics"
    /\ last.args[1] >= 3
    /\ Len(last.reachable_points) >= 1
    /\ last.printed.workspace_area[1] > 0

\* C29: get_workspace_analysis(R) terminates and returns for every integer
\* R >= 1, the progress indicator (i * R + j) mod (R * R div 10) included: on an
\* arm with a prismatic joint the call never ends in an exception.
C29_WorkspaceAnalysisReturns ==
    (cls = "RoboticArm4DOF" /\ PrismaticMaxLimits(arm4) # {}) => pc # "raised"

----------------------------------------------------------------------------
(* Claims about the reachability test, checked under SpecReach *)

\* C13: is_reachable(x, y) is True exactly when min_reach <= sqrt(x^2 + y^2)
\* <= max_reach, both bounds included, with max_reach the sum of the link
\* lengths and min_reach |sum of the first N-1 link lengths - last link
\* length|: a function of the link lengths and the point alone, whatever the
\* joint limits and the stored joint angles are.  Links [3.0, 2.5, 1.5] give
\* the bounds 4.0 and 7.0, accept (4.0, 2.0) and reject (0, 10.0); a single
\* link L accepts exactly the points at distance L.
C13_IsReachableBounds ==
    last.op = "RoboticArm.is_reachable" =>
        LET l         == arm.link_lengths
            n         == Len(l)
            d2        == DistSq(last.args[1], Origin)
            max_reach == Sum(l)
            min_reach == Abs(Sum(SubSeq(l, 1, n - 1)) - l[n])
        IN  /\ last.ret = (Sq(min_reach) <= d2 /\ d2 <= Sq(max_reach))
            /\ l = <<900, 750, 450>> =>
                  /\ min_reach = 1200 /\ max_reach = 2100
                  /\ last.args[1] = <<1200, 600>> => last.ret = TRUE
                  /\ last.args[1] = <<0, 3000>> => last.ret = FALSE
            /\ n = 1 => last.ret = (d2 = Sq(l[1]))

\* C13 happens: an arm of links [3.0, 2.5, 1.5] with joint limits of its own
\* and stored angles other than zero accepted a point at distance 4.0
\* exactly.
C13_Witness ==
    /\ last.op = "RoboticArm.is_reachable"
    /\ arm.link_lengths = <<900, 750, 450>>
    /\ arm.joint_limits[1] # <<-Pi, Pi>>
    /\ arm.joint_angles # Zeros(3)
    /\ last.args[1] = <<1200, 0>>
    /\ last.ret = TRUE

\* C14: the min_reach is_reachable uses equals the triangle-inequality bound
\* of the longest link against the rest, |sum of all link lengths except the
\* largest - the largest link length|, for every list of link lengths in
\* every order.
C14_MinReachIsTriangleBound ==
    last.op = "RoboticArm.is_reachable" =>
        LET l       == arm.link_lengths
            largest == SetMax({ l[i] : i \in DOMAIN l })
        IN  RoboticArm_min_reach(arm) = Abs((Sum(l) - largest) - largest)

----------------------------------------------------------------------------
(* Claims about the pick-and-place planner, checked under SpecPick *)

\* the number of calls of the given role that returned a solution
RECURSIVE Solved(_, _)
Solved(calls, role) ==
    IF calls = << >> THEN 0
    ELSE (IF calls[1].role = role /\ calls[1].success THEN 1 ELSE 0)
         + Solved(Tail(calls), role)

\* the returned solutions, in call order
RECURSIVE Solutions(_)
Solutions(calls) ==
    IF calls = << >> THEN << >>
    ELSE (IF calls[1].success THEN << calls[1].ret >> ELSE << >>)
         \o Solutions(Tail(calls))

\* C21: plan_pick_and_place skips a sub-motion whose solve fails: when the
\* pick solve of an object fails no frame is added for it, its place solve is
\* not attempted and the object keeps its coordinates; when the place solve
\* fails after a pick that succeeded, only the pick frames are added and the
\* object keeps its coordinates; the coordinates become the target's only when
\* both solves succeeded; and the loop always goes on to the next object.
C21_FailedSolveSkipsSubMotion ==
    [][ ( /\ pc = "plan_pick_and_place"
          /\ ws.i < Len(sim.objects)
          /\ ws.i < Len(sim.target_locations) )
        => LET i      == ws.i + 1
               obj    == sim.objects[i]
               target == sim.target_locations[i]
               new    == SubSeq(ik_calls', Len(ik_calls) + 1, Len(ik_calls'))
           IN  /\ pc' = pc /\ ws'.i = ws.i + 1
               /\ Len(sim'.objects) = Len(sim.objects)
               /\ \A k \in DOMAIN sim.objects :
                     k # i => sim'.objects[k] = sim.objects[k]
               /\ Len(new) >= 1 /\ new[1].role = "pick" /\ new[1].target = obj
               /\ IF ~new[1].success
                  THEN /\ Len(new) = 1
                       /\ ws'.sequence = ws.sequence
                       /\ sim'.objects[i] = obj
                  ELSE /\ Len(new) = 2
                       /\ new[2].role = "place" /\ new[2].target = target
                       /\ IF ~new[2].success
                          THEN /\ Len(ws'.sequence) = Len(ws.sequence) + 60
                               /\ ws'.sequence[Len(ws'.sequence)]
                                     = AsFrame(new[1].ret, Steps)
                               /\ sim'.objects[i] = obj
                          ELSE /\ Len(ws'.sequence) = Len(ws.sequence) + 120
                               /\ sim'.objects[i] = target ]_vars

\* C21 happens: the pick solve of the first object failed, the loop went on
\* to the second, whose pick succeeded and whose place solve failed, and both
\* objects are where they were.
C21_Witness ==
    /\ pc = "plan_pick_and_place" /\ ws.i = 2
    /\ Len(ik_calls) = 3
    /\ ik_calls[1].role = "pick" /\ ~ik_calls[1].success
    /\ ik_calls[2].role = "pick" /\ ik_calls[2].success
    /\ ik_calls[3].role = "place" /\ ~ik_calls[3].success
    /\ sim.objects[1] = ik_calls[1].target
    /\ sim.objects[2] = ik_calls[2].target
    /\ sim.objects[2] # sim.target_locations[2]
    /\ Len(ws.sequence) = 110

\* C30: the sequence plan_pick_and_place returns is contiguous and anchored
\* at home: its first frame is the robot's stored joint angles, every motion
\* segment begins at the configuration the previous one ended at and ends, its
\* pause included, at the solution it moved to, the last frame is home (all
\* zeros), and its length is 100 + 60 * (pick solves that succeeded)
\* + 60 * (place solves that succeeded); an object with no target at its index
\* is left untouched.
C30_SequenceContiguousAndHomeAnchored ==
    /\ []( ( /\ pc = "idle"
             /\ last.op = "PickAndPlaceSimulation.plan_pick_and_place" )
           => LET ret  == last.ret
                  sol  == Solutions(ik_calls)
                  n    == Len(sol)
                  start(m) == 50 + 60 * m
              IN  /\ ret[1] = AsFrame(arm.joint_angles, Steps)
                  /\ ret[Len(ret)] = AsFrame(Zeros(arm.num_joints), Steps)
                  /\ Len(ret) = 100 + 60 * Solved(ik_calls, "pick")
                                    + 60 * Solved(ik_calls, "place")
                  /\ \A m \in 0..n : ret[start(m) + 1] = ret[start(m)]
                  /\ \A m \in 1..n : \A k \in 50..60 :
                        ret[start(m - 1) + k] = AsFrame(sol[m], Steps) )
    /\ [][ pc = "plan_pick_and_place"
           => \A k \in DOMAIN sim.objects :
                 k > Len(sim.target_locations) => sim'.objects[k] = sim.objects[k] ]_vars

\* C30 happens: a plan returned that started away from home, with a pick and
\* a place that succeeded at configurations away from home, and an object
\* that has no target.
C30_Witness ==
    /\ pc = "idle" /\ last.op = "PickAndPlaceSimulation.plan_pick_and_place"
    /\ arm.joint_angles # Zeros(arm.num_joints)
    /\ Len(sim.objects) > Len(sim.target_locations)
    /\ Solved(ik_calls, "pick") >= 1 /\ Solved(ik_calls, "place") >= 1
    /\ \E m \in DOMAIN ik_calls :
          ik_calls[m].success /\ ik_calls[m].ret # Zeros(arm.num_joints)
    /\ Len(last.ret) >= 220

----------------------------------------------------------------------------
(* Claims about the sorting system, checked under SpecSorting *)

Moving == system.arm_state \in { "moving_to_pick", "moving_to_sort" }

\* the objects ever created that carry a flag
PickedObjects == { id \in DOMAIN system.heap : system.heap[id].picked }

SortedObjects == { id \in DOMAIN system.heap : system.heap[id].sorted }

\* C26: in every state reachable through update, arm_state is scanning,
\* moving_to_pick or moving_to_sort; while it is one of the moving states
\* neither current_target nor picking_object is None; and a step that
\* completes a sort leaves arm_state scanning with current_target and
\* picking_object None.
C26_ArmStateAndTargets ==
    /\ [](/\ system.arm_state \in { "scanning", "moving_to_pick", "moving_to_sort" }
          /\ Moving => (system.current_target # None /\ system.picking_object # 0))
    /\ [][ system'.objects_sorted # system.objects_sorted
           => /\ system'.arm_state = "scanning"
              /\ system'.current_target = None
              /\ system'.picking_object = 0 ]_system

\* an update has just completed the sort of an object it had moved to pick
C26_Witness ==
    /\ last.op = "SortingSystem.update"
    /\ last.called = "execute_sort_movement"
    /\ system.objects_sorted = 1
    /\ system.arm_state = "scanning"
    /\ SortedObjects # {}

\* a quotient <<numerator, denominator>> that is defined and lies in [0, 1]
InUnitInterval(q) == q[2] > 0 /\ 0 <= q[1] /\ q[1] <= q[2]

\* C27: the five counters never decrease and are ordered, correct_sorts <=
\* objects_sorted <= successful_picks <= pick_attempts <= detection_attempts,
\* in every reachable state; successful_picks counts every picked object
\* once and objects_sorted every sorted object once; and every call of
\* get_performance_metrics returns a pick_success_rate and a sort_accuracy
\* with a non-zero denominator and a value in [0, 1].
C27_CountersOrderedAndMonotone ==
    /\ [](/\ system.correct_sorts <= system.objects_sorted
          /\ system.objects_sorted <= system.successful_picks
          /\ system.successful_picks <= system.pick_attempts
          /\ system.pick_attempts <= system.detection_attempts
          /\ system.successful_picks = Cardinality(PickedObjects)
          /\ system.objects_sorted = Cardinality(SortedObjects)
          /\ last.op = "SortingSystem.get_performance_metrics"
             => /\ InUnitInterval(last.ret.pick_success_rate)
                /\ InUnitInterval(last.ret.sort_accuracy))
    /\ [][ /\ system'.correct_sorts >= system.correct_sorts
           /\ system'.objects_sorted >= system.objects_sorted
           /\ system'.successful_picks >= system.successful_picks
           /\ system'.pick_attempts >= system.pick_attempts
           /\ system'.detection_attempts >= system.detection_attempts ]_system

\* the metrics are read after one object was sorted, a second was picked and
\* a detection found no solution
C27_Witness ==
    /\ last.op = "SortingSystem.get_performance_metrics"
    /\ last.ret.sort_accuracy = << 1, 1 >>
    /\ last.ret.pick_success_rate[1] = 2
    /\ system.objects_sorted = 1
    /\ system.pick_attempts < system.detection_attempts

\* C25: a step that raises correct_sorts sorts an object whose size and
\* color, as the detector reported them in the detection that started its
\* pick, equal its actual size and color.
C25_CorrectSortsComparesDetection ==
    [][ system'.correct_sorts # system.correct_sorts
        => /\ ws.detection.object = system.picking_object
           /\ ws.detection.size = system.heap[system.picking_object].size
           /\ ws.detection.color = system.heap[system.picking_object].color ]_system

\* the objects the arm holds: picked and not yet sorted
HeldObjects == PickedObjects \ SortedObjects

\* C24: in every state reachable through update at most one object has
\* picked set and sorted not set, and every object with sorted set has
\* picked set.
C24_AtMostOneObjectHeld ==
    /\ Cardinality(HeldObjects) <= 1
    /\ SortedObjects \subseteq PickedObjects

\* the detection zone [center_x - width/2, center_x + width/2] contains x
InDetectionZone(x) ==
    /\ system.detection_zone[1] - system.detection_zone[2] \div 2 <= x
    /\ x <= system.detection_zone[1] + system.detection_zone[2] \div 2

\* C23: a step in which execute_pick marks an object as picked leaves that
\* object in conveyor.objects and inside the detection zone.
C23_PickedInsideDetectionZone ==
    [][ system'.successful_picks # system.successful_picks
        => /\ \E k \in DOMAIN system'.conveyor.objects :
                 system'.conveyor.objects[k] = system'.picking_object
           /\ InDetectionZone(system'.heap[system'.picking_object].x) ]_system

\* C22: under repeated update(dt) with a fixed dt, an arm in moving_to_pick
\* leaves moving_to_pick and an arm in moving_to_sort reaches scanning: the
\* arm never stays in a moving state forever.
C22_MovingArmReachesTarget ==
    /\ (system.arm_state = "moving_to_pick") ~> (system.arm_state # "moving_to_pick")
    /\ (system.arm_state = "moving_to_sort") ~> (system.arm_state = "scanning")

====
